---------------------------- MODULE Spec2Model ----------------------------
(***************************************************************************)
(* Motion-accumulator arithmetic of plotink (src/plotink/ebb_calc.py):     *)
(* move_dist_lt, move_dist_t3 and calculate_lm, with the step integrator   *)
(* of the EBB firmware they predict.                                       *)
(*                                                                         *)
(* The functions are pure.  A behaviour picks (rate, accel, accum) in the  *)
(* initial state, then makes one call; after a call of move_dist_lt the    *)
(* integrator runs tick by tick over the same move.                        *)
(*                                                                         *)
(* Arithmetic.  The source computes in mpmath at 30 decimal digits; every  *)
(* intermediate value is a multiple of 1/2 (1/6 in move_dist_t3) below     *)
(* 10^30, known to far less than the distance to the next such multiple,   *)
(* so floor, ceil and the comparisons see the exact value; the arithmetic  *)
(* is modelled on integers scaled by 2 (by 6).  Python floats (rate_t3,    *)
(* max_rate_t3, the round() of move_dist_t3) are modelled with their       *)
(* significand.  The accumulator range 2^31 does not fit the integers of the *)
(* model checker: AccumRange stands for 2147483648 and AccumMax for        *)
(* 2147483647, scaled down; rates and accelerations scale with it.         *)
(***************************************************************************)
EXTENDS Integers, Sequences, FiniteSets, TLC

\* ------------------------------------------------------------------ bounds
\* Stands for 2147483648 (2^31), the range of the step accumulator.
AccumRange == 8
\* Largest |accel| drawn.
MaxAccel == 4
\* Largest |jerk| drawn.
MaxJerk == 7
\* Largest time (ISR ticks) passed to the simulators.
MaxTime == 6
\* Largest |steps| passed to calculate_lm.
MaxSteps == 3
\* Stands for 53, the bits in the significand of a Python float.
FloatBits == 6
\* A precision (mpmath.mp.dps) set by the code that calls these functions;
\* 15 is the library's default.
CallerDps == 15
\* Largest EBB3.retry_count followed.
MaxRetryCount == 3
\* Largest num_tries passed to EBB3._send_request.
MaxTries == 3
\* Largest number of reads a port wants to answer a request with.
MaxChatter == 27
\* Largest pause_time passed to timed_pause.
MaxPause == 1501
\* Largest number of commands of one timed_pause followed.
MaxCommands == 3

\* 2147483647 (2^31 - 1): the value a cleared accumulator takes for a move
\* that starts in the negative direction.
AccumMax == AccumRange - 1

Rates == (0 - AccumMax)..AccumMax
Accels == (0 - MaxAccel)..MaxAccel
Jerks == (0 - MaxJerk)..MaxJerk
Times == 0..MaxTime
StepCounts == (0 - MaxSteps)..MaxSteps

\* The accum argument: the string "clear", an integer (also outside
\* [0, 2^31)), or a value that int() does not convert.
IntAccum(v) == [kind |-> "int", v |-> v]
ClearAccum == [kind |-> "clear", v |-> 0]
BadAccum == [kind |-> "invalid", v |-> 0]
Accums == {ClearAccum, BadAccum} \cup {IntAccum(v) : v \in (0 - 2)..(AccumRange + 1)}

VARIABLES
    rate,     \* argument rate
    accel,    \* argument accel
    accum,    \* argument accum
    fn,       \* the function called: "none" before the call
    arg,      \* its other arguments: [time, steps, jerk]
    ret,      \* what it returned
    isr,      \* the firmware integrator: [n, pos, acc, ok]
    dps,      \* mpmath.mp.dps, the precision setting of the mpmath library
    ebb,      \* an EBB3 object: [port, port_name, err, version_parsed,
              \* retry_count], and port_reply, what the board behind the open
              \* port answered to the version request
    call      \* the last call made on it: [name, arg, fault, tried, result]

calcVars == <<rate, accel, accum, fn, arg, ret, isr, dps>>
ebbVars == <<ebb, call>>
vars == <<rate, accel, accum, fn, arg, ret, isr, dps, ebb, call>>

\* ------------------------------------------------------------- arithmetic
Abs(x) == IF x < 0 THEN 0 - x ELSE x

\* int(a / b) for b > 0: Python's int() truncates toward zero.
TruncDiv(a, b) == IF a >= 0 THEN a \div b ELSE 0 - ((0 - a) \div b)

\* floor(a / b) and ceil(a / b) for b > 0.
FloorDiv(a, b) == a \div b
CeilDiv(a, b) == 0 - ((0 - a) \div b)

\* floor(n / d) and ceil(n / d) for any d # 0.
FloorQ(n, d) == IF d > 0 THEN FloorDiv(n, d) ELSE FloorDiv(0 - n, 0 - d)
CeilQ(n, d) == IF d > 0 THEN CeilDiv(n, d) ELSE CeilDiv(0 - n, 0 - d)

RECURSIVE SqrtUp(_, _)
\* least r >= from with r * r >= d
SqrtUp(d, from) == IF from * from >= d THEN from ELSE SqrtUp(d, from + 1)

\* ceil(sqrt(d)) and floor(sqrt(d)) for d >= 0.
CeilSqrt(d) == SqrtUp(d, 0)
FloorSqrt(d) == LET r == SqrtUp(d, 0) IN IF r * r = d THEN r ELSE r - 1

RECURSIVE Pow2(_)
Pow2(n) == IF n = 0 THEN 1 ELSE 2 * Pow2(n - 1)

\* Python floats, on values counted in halves: a float holds h / 2 exactly
\* when |h| is below 2^FloatBits; a larger value has a significand of
\* FloatBits bits, so it is a multiple of FloatUlp.
FloatRange == Pow2(FloatBits)

RECURSIVE FloatUlp(_, _)
FloatUlp(h, u) == IF Abs(h) < FloatRange * u THEN u ELSE FloatUlp(h, 2 * u)

\* ----------------------------------------------------------- move_dist_lt
\* ebb_calc.py:77  rate at step n as added to the accumulator (n = 1 there)
RateAtTick(r, a, n) == r - TruncDiv(a, 2) + n * a

\* a first step of rate zero always taken as negative
InitialRateNegative_ZeroIsNegative(r, a) == RateAtTick(r, a, 1) <= 0

\* a first step of rate zero never taken as negative
InitialRateNegative_ZeroIsPositive(r, a) == RateAtTick(r, a, 1) < 0

\* ebb_calc.py:77-82  is the move's first step in the negative direction?
InitialRateNegative(r, a) ==
    LET temp_rate == RateAtTick(r, a, 1)
    IN  \/ temp_rate < 0
        \/ temp_rate = 0 /\ a < 0

\* rate_effective without the correction for the truncation of accel / 2
RateEffective2_NoCorrection(r, a) == 2 * r

\* ebb_calc.py:87  twice rate_effective = rate + accel/2 - int(accel/2)
RateEffective2(r, a) == 2 * r + a - 2 * TruncDiv(a, 2)

\* ebb_calc.py:90-91  accum + rate_effective * time + accel * time^2 / 2;
\* the sum is an integer, so the division is exact.
AccumPolyLT(r, a, t, c) == c + (RateEffective2(r, a) * t + a * t * t) \div 2

\* steps by truncation toward zero instead of floor
WrapAccum_Truncating(raw) ==
    LET pos_final == TruncDiv(raw, AccumRange)
    IN  [pos |-> pos_final, accum |-> raw - AccumRange * pos_final]

\* ebb_calc.py:93-96  steps and remainder of a raw accumulator value
WrapAccum(raw) ==
    LET pos_final == FloorDiv(raw, AccumRange)
    IN  [pos |-> pos_final, accum |-> raw - AccumRange * pos_final]

\* ebb_calc.py:84  int(accum) raises for a value that is no number
Raised == [raised |-> TRUE, pos |-> 0, accum |-> 0, start |-> 0]

\* a move of no ticks that hands the accumulator back
ZeroTimeResult_CarriesAccum(c) ==
    [raised |-> FALSE, pos |-> 0, accum |-> c.v, start |-> 0]

\* ebb_calc.py:65-69  a move of no ticks
ZeroTimeResult(c) == [raised |-> FALSE, pos |-> 0, accum |-> 0, start |-> 0]

\* ebb_calc.py:48-96
move_dist_lt(r, a, t, c) ==
    IF t = 0 THEN ZeroTimeResult(c)
    ELSE IF c.kind = "invalid" THEN Raised
    ELSE LET start == IF c.kind = "clear"
                      THEN (IF InitialRateNegative(r, a) THEN AccumMax ELSE 0)
                      ELSE c.v
             w == WrapAccum(AccumPolyLT(r, a, t, start))
         IN  [raised |-> FALSE, pos |-> w.pos, accum |-> w.accum, start |-> start]

\* ----------------------------------------------------------- move_dist_t3
\* a cleared accumulator that looks no further than step 2
ClearAccumT3_TwoLevels(r, a, j) ==
    LET temp_rate == r - TruncDiv(a, 2) + TruncDiv(j, 6) + a
    IN  IF temp_rate < 0 \/ (temp_rate = 0 /\ a + j < 0) THEN AccumMax ELSE 0

\* ebb_calc.py:127-138  start value of a cleared accumulator: the sign of the
\* rate at step 1, else at step 2, else at step 3
ClearAccumT3(r, a, j) ==
    LET temp_rate == r - TruncDiv(a, 2) + TruncDiv(j, 6) + a
    IN  IF temp_rate < 0 THEN AccumMax
        ELSE IF temp_rate = 0
             THEN (IF a + j < 0 THEN AccumMax
                   ELSE IF a + j = 0 /\ j < 0 THEN AccumMax
                   ELSE 0)
             ELSE 0

\* ebb_calc.py:143-147  six times rate_effective =
\* rate + accel/2 - int(accel/2) + int(jerk/6) - jerk/6.  The test of line 146
\* replaces it by rate when they differ by less than 0.01; the difference is a
\* multiple of 1/6, so that happens exactly when they are equal.
RateEffective6(r, a, j) ==
    LET exact == 6 * r + 3 * a - 6 * TruncDiv(a, 2) + 6 * TruncDiv(j, 6) - j
    IN  IF 100 * Abs(exact - 6 * r) < 6 THEN 6 * r ELSE exact

\* ebb_calc.py:150-152  six times accum + rate_effective * T + accel * T^2 / 2
\* + jerk * T^3 / 6
AccumPolyT3x6(r, a, j, t, c) ==
    6 * c + RateEffective6(r, a, j) * t + 3 * a * t * t + j * t * t * t

\* ebb_calc.py:153  round(n / d), d > 0: to the nearest integer, a tie to the
\* even one
RoundNearest(n, d) ==
    LET q == FloorDiv(n, d)
        rem == n - q * d
    IN  IF 2 * rem > d \/ (2 * rem = d /\ q % 2 = 1) THEN q + 1 ELSE q

\* the float nearest to h / 2, in halves: the result of one float operation
\* whose exact value is h / 2 (round to nearest, a tie to the even one)
FloatRound(h) == LET u == FloatUlp(h, 1) IN u * RoundNearest(h, u)

\* the spacing of the floats around the integer n: 1 up to 2^FloatBits
IntUlp(n) == LET u == FloatUlp(2 * n, 1) IN IF u <= 2 THEN 1 ELSE u \div 2

\* the integers float(x) can be for x within a rounding error of the integer
\* n: the float nearest to n.  When n is halfway between two floats the tie
\* goes to the even one if x is exactly n, and to the side of the rounding
\* error of jerk / 6 if it is not: both are outcomes.
FloatOfInteger(n) ==
    LET u == IntUlp(n)
        lo == u * FloorDiv(n, u)
    IN  IF n = lo THEN {n}
        ELSE IF 2 * (n - lo) < u THEN {lo}
        ELSE IF 2 * (n - lo) > u THEN {lo + u}
        ELSE {lo, lo + u}

\* ebb_calc.py:153  round(accum_final), accum_final an mpmath value n / d.
\* round() hands the value to the __round__ of mpmath, which is outside this
\* repository: mpmath 1.3.0, the version setup.py asks for at least, converts
\* to a Python float and rounds that; a version that rounds the value itself
\* returns the nearest integer.  The outcomes of both are taken.
RoundMpf(n, d) ==
    LET nearest == RoundNearest(n, d)
    IN  {nearest} \cup FloatOfInteger(nearest)

\* ebb_calc.py:99-159  the results a call can return: one for each outcome
\* of round()
move_dist_t3(t, r, a, j, c) ==
    IF t = 0 THEN {ZeroTimeResult(c)}
    ELSE IF c.kind = "invalid" THEN {Raised}
    ELSE LET start == IF c.kind = "clear" THEN ClearAccumT3(r, a, j) ELSE c.v
         IN  {[raised |-> FALSE, pos |-> WrapAccum(n).pos,
               accum |-> WrapAccum(n).accum, start |-> start] :
                  n \in RoundMpf(AccumPolyT3x6(r, a, j, t, start), 6)}

\* ----------------------------------------------------------- calculate_lm
\* ebb_calc.py:238-253  early exits and legacy mode.  "exit" names the return
\* statement taken, "none" when the move goes on to be computed.
Degenerate(how) ==
    [raised |-> FALSE, exit |-> how, time |-> 0, pos |-> 0, accum |-> 0]

\* legacy mode that leaves accel as it is
LegacyNegate_KeepsAccel(s, r, a) == [steps |-> 0 - s, rate |-> 0 - r, accel |-> a]

\* ebb_calc.py:248-253  legacy mode negates steps, rate and accel together
LegacyNegate(s, r, a) == [steps |-> 0 - s, rate |-> 0 - r, accel |-> 0 - a]

\* the early exits without the legacy-mode rejection
EarlyExit_NoLegacyCheck(s, r, a) ==
    IF s = 0 THEN "no_steps"
    ELSE IF a = 0 /\ r = 0 THEN "no_rate"
    ELSE "none"

\* ebb_calc.py:242-250  the return statement taken before the computation
EarlyExit(s, r, a) ==
    IF s = 0 THEN "no_steps"
    ELSE IF a = 0 /\ r = 0 THEN "no_rate"
    ELSE IF s < 0 /\ r < 0 THEN "legacy_negative_rate"
    ELSE "none"

\* ebb_calc.py:283-287  t_rev = floor(0.5 - rate / accel) when the rate
\* changes sign during the move, else -1
ReversalTick(r, a) ==
    IF a # 0 /\ r # 0 /\ ((a > 0) # (r > 0))
    THEN FloorQ(a - 2 * r, 2 * a)
    ELSE 0 - 1

\* ebb_calc.py:289-295  steps made up to the reversal
ReversalSteps(r, a, t_rev, accum_adj) ==
    IF t_rev > 0
    THEN FloorDiv(Abs(AccumPolyLT(r, a, t_rev, accum_adj)), AccumRange)
    ELSE 0

\* final position that takes the sign of accel also when the reversal is not
\* relevant
FinalPosition_SignOfAccel(s, a, neg, t_rev, s_rev) ==
    IF t_rev <= 1 \/ s_rev >= s
    THEN LET p == IF a > 0 THEN s ELSE 0 - s
         IN  [branch |-> "no_reversal", t_rev |-> 0 - 1, pos_final |-> p, pos_f_adj |-> p]
    ELSE IF s_rev = 0
    THEN (IF a > 0
          THEN [branch |-> "before_first_step", t_rev |-> t_rev,
                pos_final |-> s, pos_f_adj |-> s - 1]
          ELSE [branch |-> "before_first_step", t_rev |-> t_rev,
                pos_final |-> 0 - s, pos_f_adj |-> 1 - s])
    ELSE LET net_steps == s_rev - (s - s_rev)
         IN  IF a > 0
             THEN [branch |-> "general", t_rev |-> t_rev,
                   pos_final |-> 0 - net_steps, pos_f_adj |-> 0 - net_steps - 1]
             ELSE [branch |-> "general", t_rev |-> t_rev,
                   pos_final |-> net_steps, pos_f_adj |-> net_steps + 1]

\* final position whose general case returns the position the time is solved
\* for, one step short of the net
FinalPosition_ReturnsAdjusted(s, a, neg, t_rev, s_rev) ==
    IF t_rev <= 1 \/ s_rev >= s
    THEN LET p == IF neg THEN 0 - s ELSE s
         IN  [branch |-> "no_reversal", t_rev |-> 0 - 1, pos_final |-> p, pos_f_adj |-> p]
    ELSE IF s_rev = 0
    THEN (IF a > 0
          THEN [branch |-> "before_first_step", t_rev |-> t_rev,
                pos_final |-> s, pos_f_adj |-> s - 1]
          ELSE [branch |-> "before_first_step", t_rev |-> t_rev,
                pos_final |-> 0 - s, pos_f_adj |-> 1 - s])
    ELSE LET net_steps == s_rev - (s - s_rev)
         IN  IF a > 0
             THEN [branch |-> "general", t_rev |-> t_rev,
                   pos_final |-> 0 - net_steps - 1, pos_f_adj |-> 0 - net_steps - 1]
             ELSE [branch |-> "general", t_rev |-> t_rev,
                   pos_final |-> net_steps + 1, pos_f_adj |-> net_steps + 1]

\* ebb_calc.py:300-322  final position, and the position the time is solved
\* for; t_rev is reset to -1 when the reversal is not relevant
FinalPosition(s, a, neg, t_rev, s_rev) ==
    IF t_rev <= 1 \/ s_rev >= s
    THEN LET p == IF neg THEN 0 - s ELSE s
         IN  [branch |-> "no_reversal", t_rev |-> 0 - 1, pos_final |-> p, pos_f_adj |-> p]
    ELSE IF s_rev = 0
    THEN (IF a > 0
          THEN [branch |-> "before_first_step", t_rev |-> t_rev,
                pos_final |-> s, pos_f_adj |-> s - 1]
          ELSE [branch |-> "before_first_step", t_rev |-> t_rev,
                pos_final |-> 0 - s, pos_f_adj |-> 1 - s])
    ELSE LET net_steps == s_rev - (s - s_rev)
         IN  IF a > 0
             THEN [branch |-> "general", t_rev |-> t_rev,
                   pos_final |-> 0 - net_steps, pos_f_adj |-> 0 - net_steps - 1]
             ELSE [branch |-> "general", t_rev |-> t_rev,
                   pos_final |-> net_steps, pos_f_adj |-> net_steps + 1]

\* ebb_calc.py:338-356  the two roots of accel/2 T^2 + rate_effective T +
\* c_factor = 0, each rounded up, -1 for a root that is not real or lies at or
\* before the reversal.  With b2 = 2 rate_effective and d4 = 4 discriminant the
\* roots are (-b2 -/+ sqrt(d4)) / (2 accel).
Roots(r, a, t_rev, c_factor) ==
    LET b2 == RateEffective2(r, a)
        d4 == b2 * b2 - 8 * a * c_factor
    IN  IF d4 < 0 THEN [real |-> FALSE, neg_root |-> 0 - 1, pos_root |-> 0 - 1]
        ELSE LET neg_c == IF a > 0 THEN CeilDiv(0 - b2 - FloorSqrt(d4), 2 * a)
                                   ELSE CeilDiv(b2 + CeilSqrt(d4), 0 - 2 * a)
                 pos_c == IF a > 0 THEN CeilDiv(CeilSqrt(d4) - b2, 2 * a)
                                   ELSE CeilDiv(b2 - FloorSqrt(d4), 0 - 2 * a)
             IN  [real |-> TRUE,
                  neg_root |-> IF t_rev > 0 /\ neg_c <= t_rev THEN 0 - 1 ELSE neg_c,
                  pos_root |-> IF t_rev > 0 /\ pos_c <= t_rev THEN 0 - 1 ELSE pos_c]

\* ebb_calc.py:333, 358-366  the smaller of the roots that are left; 0 when
\* none is
PickRoot(neg_root, pos_root) ==
    IF pos_root > 0
    THEN (IF neg_root > 0
          THEN (IF pos_root < neg_root THEN pos_root ELSE neg_root)
          ELSE pos_root)
    ELSE IF neg_root > 0 THEN neg_root ELSE 0

\* ebb_calc.py:325-368  the time at which the position is reached
SolveTime(r, a, t_rev, accum_adj, pos_final, pos_f_adj) ==
    IF a = 0
    THEN [time |-> CeilQ(AccumRange * pos_final - accum_adj, r),
          real |-> TRUE, neg_root |-> 0 - 1, pos_root |-> 0 - 1]
    ELSE LET rt == Roots(r, a, t_rev, accum_adj - pos_f_adj * AccumRange)
         IN  [time |-> PickRoot(rt.neg_root, rt.pos_root),
              real |-> rt.real, neg_root |-> rt.neg_root, pos_root |-> rt.pos_root]

\* ebb_calc.py:255-376  the move after the early exits and legacy negation
ComputeLM(s, r, a, c) ==
    LET neg == InitialRateNegative(r, a)
        start == IF c.kind = "clear" THEN (IF neg THEN AccumMax ELSE 0) ELSE c.v
        accum_adj == IF neg THEN start - AccumMax ELSE start
        t_rev0 == ReversalTick(r, a)
        s_rev == ReversalSteps(r, a, t_rev0, accum_adj)
        fp == FinalPosition(s, a, neg, t_rev0, s_rev)
        st == SolveTime(r, a, fp.t_rev, accum_adj, fp.pos_final, fp.pos_f_adj)
        c_final == AccumPolyLT(r, a, st.time, start) - AccumRange * fp.pos_final
    IN  [raised |-> FALSE, exit |-> "none", time |-> st.time, pos |-> fp.pos_final,
         accum |-> c_final, start |-> start, steps |-> s, rate |-> r, accel |-> a,
         branch |-> fp.branch, t_rev |-> fp.t_rev, s_rev |-> s_rev,
         real |-> st.real, neg_root |-> st.neg_root, pos_root |-> st.pos_root]

\* ebb_calc.py:221-376
calculate_lm(s, r, a, c) ==
    LET how == EarlyExit(s, r, a)
        m == IF s < 0 THEN LegacyNegate(s, r, a)
             ELSE [steps |-> s, rate |-> r, accel |-> a]
    IN  IF how # "none" THEN Degenerate(how)
        ELSE IF c.kind = "invalid"
        THEN [raised |-> TRUE, exit |-> "none", time |-> 0, pos |-> 0, accum |-> 0]
        ELSE ComputeLM(m.steps, m.rate, m.accel, c)

\* ---------------------------------------------------------------- rate_t3
\* ebb_calc.py:162-185  rate after T ticks of a T3 move: round(rate -
\* int(accel/2) + int(jerk/6) + (accel - jerk/2) * T + jerk * T^2 / 2), and
\* rate + accel + jerk for T = 0.  The first three terms are integers; jerk/2
\* makes the rest float arithmetic, one rounding for each operation, left to
\* right.  Values are in halves up to the final round().
rate_t3(t, r, a, j) ==
    IF t = 0 THEN r + a + j
    ELSE LET base == r - TruncDiv(a, 2) + TruncDiv(j, 6)
             slope == FloatRound(2 * a - j)
             linear == FloatRound(slope * t)
             sum1 == FloatRound(2 * base + linear)
             square == FloatRound(j * t * t)
             sum2 == FloatRound(sum1 + square)
         IN  RoundNearest(sum2, 2)

\* ------------------------------------------------------------ max_rate_t3
Max(x, y) == IF x >= y THEN x ELSE y

\* t_mid is counted in units of 2 / 2^FloatBits: every float of magnitude 1
\* or more is a whole number of them.
TMidUnit == FloatRange \div 2

\* ebb_calc.py:211  t_mid = (jerk/2 - accel) / jerk for jerk # 0, the float
\* nearest to the quotient.  A quotient below 1 is rounded to the same unit:
\* it is only compared with 1.5.
t_mid(a, j) ==
    LET n == FloatRound(j - 2 * a) * TMidUnit
        num == IF j > 0 THEN n ELSE 0 - n
        den == 2 * Abs(j)
        u == FloatUlp(Abs(num) \div den, 1)
    IN  u * RoundNearest(num, den * u)

\* a window that takes in its two ends
MidInWindow_Closed(t, a, j) ==
    /\ 3 * TMidUnit <= 2 * t_mid(a, j)
    /\ 2 * t_mid(a, j) <= (2 * t - 3) * TMidUnit

\* ebb_calc.py:213  1.5 < t_mid < time - 1.5
MidInWindow(t, a, j) ==
    /\ 3 * TMidUnit < 2 * t_mid(a, j)
    /\ 2 * t_mid(a, j) < (2 * t - 3) * TMidUnit

\* ebb_calc.py:214  math.ceil(t_mid)
MidTick(a, j) == CeilDiv(t_mid(a, j), TMidUnit)

\* ebb_calc.py:203-218  the largest of the rate magnitudes looked at; "branch"
\* names the return statement taken and "mid" the tick looked at between the
\* ends (0 when there is none)
MaxRateT3(t, r, a, j) ==
    LET v_start == Abs(rate_t3(1, r, a, j))
        v_end == Abs(rate_t3(t, r, a, j))
    IN  IF t <= 1 THEN [value |-> v_start, branch |-> "start_only", mid |-> 0]
        ELSE IF j = 0
        THEN [value |-> Max(v_start, v_end), branch |-> "no_jerk", mid |-> 0]
        ELSE IF MidInWindow(t, a, j)
        THEN [value |-> Max(Max(v_start, v_end),
                            Abs(rate_t3(MidTick(a, j), r, a, j))),
              branch |-> "with_mid", mid |-> MidTick(a, j)]
        ELSE [value |-> Max(v_start, v_end), branch |-> "ends", mid |-> 0]

\* ebb_calc.py:188-218
max_rate_t3(t, r, a, j) == MaxRateT3(t, r, a, j).value

\* ------------------------------------------------- ebb_motion.py wrappers
\* the distance counted from an accumulator of 2^31 - 1
moveDistLM_FromTop(rate_in, accel_in, time_ticks) ==
    move_dist_lt(rate_in, accel_in, time_ticks, IntAccum(AccumMax)).pos

\* ebb_motion.py:129-140  the distance of move_dist_lt from accumulator 0
moveDistLM(rate_in, accel_in, time_ticks) ==
    move_dist_lt(rate_in, accel_in, time_ticks, IntAccum(0)).pos

\* ebb_motion.py:151-160  the time of calculate_lm with accum "clear"
moveTimeLM(r, steps, a) == calculate_lm(steps, r, a, ClearAccum).time

\* ------------------------------------------------------ firmware integrator
\* One 40 us tick of the step integrator: the rate of tick n is added to the
\* accumulator, which is wrapped into [0, 2^31); an overflow is a step forward
\* and an underflow a step back.  ok records that every rate so far fits in
\* 31 bits.
IsrStep(s, r, a) ==
    LET n == s.n + 1
        rate_n == RateAtTick(r, a, n)
        sum == s.acc + rate_n
    IN  [n |-> n,
         pos |-> IF sum >= AccumRange THEN s.pos + 1
                 ELSE IF sum < 0 THEN s.pos - 1 ELSE s.pos,
         acc |-> IF sum >= AccumRange THEN sum - AccumRange
                 ELSE IF sum < 0 THEN sum + AccumRange ELSE sum,
         ok |-> s.ok /\ Abs(rate_n) < AccumRange]

\* -------------------------------------------------- ebb3_serial.py: EBB3
\* ebb3_serial.py:49  MIN_VERSION_STRING = "3.0.2", as packaging.version
\* parses it
MIN_VERSION_STRING == <<3, 0, 2>>

\* firmware versions a board reports, parsed
Versions == {<<2, 8, 1>>, <<3, 0, 2>>, <<3, 1, 0>>}

\* version_parsed of an object that has parsed no version: None
NoVersion == <<>>

\* the order of packaging.version on release numbers of three parts
VersionAtLeast(v, w) ==
    \/ v[1] > w[1]
    \/ v[1] = w[1] /\ v[2] > w[2]
    \/ v[1] = w[1] /\ v[2] = w[2] /\ v[3] >= w[3]

\* A line read from the port after the version request 'v': blank, or text
\* that holds "EBB" or does not, and a version after "Firmware Version " or
\* none.
Reply(text, v) == [text |-> text, version |-> v]
NoReply == Reply("", NoVersion)
Replies ==
    {NoReply} \cup {Reply(t, v) : t \in {"other", "EBB"}, v \in Versions \cup {NoVersion}}

\* ebb3_serial.py:52-62  __init__
NewEBB ==
    [port |-> "None", port_name |-> "None", err |-> "None",
     version_parsed |-> NoVersion, retry_count |-> 0, port_reply |-> NoReply]

\* an error recorded over the one already there
record_error_Overwriting(self, message) == [self EXCEPT !.err = message]

\* ebb3_serial.py:119-122  record_error
record_error(self, message) ==
    IF self.err = "None" THEN [self EXCEPT !.err = message] ELSE self

\* ebb3_serial.py:186-193  disconnect
disconnect(self) == [self EXCEPT !.port = "None", !.port_reply = NoReply]

\* ebb3_serial.py:139-152  parse_version: a string without "Firmware
\* Version " leaves version_parsed as it is
parse_version(self, reply) ==
    IF reply.version = NoVersion THEN self
    ELSE [self EXCEPT !.version_parsed = reply.version]

\* What the port does with one request, retries included: a response that
\* starts with the name of the request (and may hold "Err:") after some tries
\* that timed out or read something else, no such response in any try, or an
\* exception raised by the port or by the decoding of what it sent.
Outcome(kind, retries, reported) ==
    [kind |-> kind, retries |-> retries, reported |-> reported]
Outcomes ==
    {Outcome("response", n, e) : n \in 0..2, e \in BOOLEAN}
    \cup {Outcome("no_response", 2, FALSE)}
    \cup {Outcome(k, n, FALSE) : k \in {"SerialException", "UnicodeDecodeError"},
                                 n \in 0..2}

\* ebb3_serial.py:393-446  _send_request with num_tries = 3: every try that
\* raises RuntimeError but the last adds 1 to retry_count; the last records
\* an error and returns None; other exceptions pass through
send_request(self, out) ==
    LET counted == [self EXCEPT !.retry_count = @ + out.retries]
    IN  IF out.kind = "no_response"
        THEN [self |-> record_error(counted, "EBB Serial Error"),
              response |-> "None", tried |-> "EBB Serial Error",
              writes |-> out.retries + 1]
        ELSE [self |-> counted,
              response |-> IF out.kind = "response" THEN "text" ELSE out.kind,
              tried |-> "None", writes |-> out.retries + 1]

\* ebb3_serial.py:402  the most reads of the port one try makes
readline_poll_max == 25

Min(x, y) == IF x < y THEN x ELSE y

\* What the port does during one try of a request.  "named": it answers with
\* a line that starts with the name of the request; "unexpected": with
\* something else; "silent": with nothing, or blanks; or a read raises
\* SerialException, or the bytes are not ASCII.  reads is the number of reads
\* after which the port has answered and has nothing more waiting.
Try(kind, reads) == [kind |-> kind, reads |-> reads]
FailingTries ==
    {Try("silent", readline_poll_max), Try("unexpected", MaxChatter)}
EndingTries ==
    {Try("named", 1), Try("named", MaxChatter),
     Try("SerialException", 1), Try("UnicodeDecodeError", 1)}

\* the sequences of n tries, each from the set S
RECURSIVE SeqsOf(_, _)
SeqsOf(S, n) ==
    IF n = 0 THEN {<<>>}
    ELSE {Append(q, x) : q \in SeqsOf(S, n - 1), x \in S}

\* what the port does over a call with num_tries tries: failing tries up to
\* one that ends the call, or num_tries tries that fail
TriesOf(num_tries) ==
    UNION {{Append(q, x) : q \in SeqsOf(FailingTries, k - 1), x \in EndingTries} :
               k \in 1..num_tries}
    \cup SeqsOf(FailingTries, num_tries)

\* _send_request that records an error for every try that fails
RECURSIVE send_request_tries_RecordsEach(_, _, _)
send_request_tries_RecordsEach(self, tries, num_tries) ==
    LET try == Head(tries)
        polls == IF try.kind = "silent" THEN readline_poll_max
                 ELSE Min(try.reads, readline_poll_max)
    IN  IF try.kind = "named"
        THEN [self |-> self, response |-> "text", tried |-> "None",
              writes |-> 1, resets |-> 0, polls |-> polls]
        ELSE IF try.kind \in {"SerialException", "UnicodeDecodeError"}
        THEN [self |-> self, response |-> try.kind, tried |-> "None",
              writes |-> 1, resets |-> 0, polls |-> polls]
        ELSE IF num_tries > 1
        THEN LET rest == send_request_tries_RecordsEach(
                             record_error([self EXCEPT !.retry_count = @ + 1],
                                          "EBB Serial Error"),
                             Tail(tries), num_tries - 1)
             IN  [rest EXCEPT !.writes = @ + 1, !.resets = @ + 1,
                              !.polls = Max(@, polls)]
        ELSE [self |-> record_error(self, "EBB Serial Error"),
              response |-> "None", tried |-> "EBB Serial Error",
              writes |-> 1, resets |-> 0, polls |-> polls]

\* ebb3_serial.py:393-446  _send_request, try by try.  A try writes the
\* request once and reads the port until it has an answer and nothing more
\* is waiting, readline_poll_max times at most.  No answer, or one that does
\* not start with the name of the request, raises RuntimeError: with tries
\* left, retry_count goes up by one, the input buffer is reset and the rest
\* is tried; with none left an error is recorded and None returned.  Other
\* exceptions pass through.  writes, resets and polls count the calls of
\* port.write and port.reset_input_buffer and the most reads of one try.
RECURSIVE send_request_tries(_, _, _)
send_request_tries(self, tries, num_tries) ==
    LET try == Head(tries)
        polls == IF try.kind = "silent" THEN readline_poll_max
                 ELSE Min(try.reads, readline_poll_max)
    IN  IF try.kind = "named"
        THEN [self |-> self, response |-> "text", tried |-> "None",
              writes |-> 1, resets |-> 0, polls |-> polls]
        ELSE IF try.kind \in {"SerialException", "UnicodeDecodeError"}
        THEN [self |-> self, response |-> try.kind, tried |-> "None",
              writes |-> 1, resets |-> 0, polls |-> polls]
        ELSE IF num_tries > 1
        THEN LET rest == send_request_tries([self EXCEPT !.retry_count = @ + 1],
                                            Tail(tries), num_tries - 1)
             IN  [rest EXCEPT !.writes = @ + 1, !.resets = @ + 1,
                              !.polls = Max(@, polls)]
        ELSE [self |-> record_error(self, "EBB Serial Error"),
              response |-> "None", tried |-> "EBB Serial Error",
              writes |-> 1, resets |-> 0, polls |-> polls]

\* ebb3_serial.py:454-467  _check_and_record_ebb_error
check_and_record_ebb_error(self, reported) ==
    IF reported THEN record_error(self, "Error reported by EBB") ELSE self

\* ebb3_serial.py:301-307, 338-344  the requests: None, "" (there is no
\* character to take its name from), an ordinary one and an ignored one
Requests == {"None", "", "SM", "RB"}

\* ebb3_serial.py:314  the names whose communication errors are ignored:
\* "RB" stands for rb, r and bl
IgnoredNames == {"RB"}

\* ebb3_serial.py:289-320  command.  After an exception of the port the
\* response was never assigned, and line 318 raises UnboundLocalError.
command(self, cmd, out) ==
    IF self.port = "None" \/ self.err # "None" \/ cmd = "None"
    THEN [self |-> self, writes |-> 0, tried |-> "None", result |-> "False"]
    ELSE IF cmd = ""
    THEN [self |-> self, writes |-> 0,
          tried |-> "None", result |-> "IndexError"]
    ELSE LET sr == send_request(self, out)
         IN  IF sr.response = "None"
             THEN [self |-> sr.self, writes |-> sr.writes,
                   tried |-> sr.tried, result |-> "False"]
             ELSE IF sr.response = "SerialException"
             THEN (IF cmd \in IgnoredNames
                   THEN [self |-> sr.self, writes |-> sr.writes,
                         tried |-> "None",
                         result |-> "UnboundLocalError"]
                   ELSE [self |-> record_error(sr.self,
                                     "USB communication error after command"),
                         writes |-> sr.writes,
                         tried |-> "USB communication error after command",
                         result |-> "UnboundLocalError"])
             ELSE IF sr.response = "UnicodeDecodeError"
             THEN [self |-> sr.self, writes |-> sr.writes, tried |-> "None",
                   result |-> "UnicodeDecodeError"]
             ELSE LET checked == check_and_record_ebb_error(sr.self, out.reported)
                  IN  [self |-> checked,
                       writes |-> sr.writes,
                       tried |-> IF out.reported THEN "Error reported by EBB"
                                 ELSE "None",
                       result |-> IF checked.err = "None" THEN "True" ELSE "False"]

\* ebb3_serial.py:322-364  query.  An ignored communication error falls
\* through to line 356 with the response never assigned.
query(self, qry, out) ==
    IF self.port = "None" \/ self.err # "None" \/ qry = "None"
    THEN [self |-> self, writes |-> 0, tried |-> "None", result |-> "None"]
    ELSE IF qry = ""
    THEN [self |-> self, writes |-> 0,
          tried |-> "None", result |-> "IndexError"]
    ELSE LET sr == send_request(self, out)
         IN  IF sr.response = "None"
             THEN [self |-> sr.self, writes |-> sr.writes,
                   tried |-> sr.tried, result |-> "None"]
             ELSE IF sr.response = "SerialException"
             THEN (IF qry \in IgnoredNames
                   THEN [self |-> sr.self, writes |-> sr.writes,
                         tried |-> "None",
                         result |-> "UnboundLocalError"]
                   ELSE [self |-> record_error(sr.self,
                                     "USB communication error after query"),
                         writes |-> sr.writes,
                         tried |-> "USB communication error after query",
                         result |-> "None"])
             ELSE IF sr.response = "UnicodeDecodeError"
             THEN [self |-> sr.self, writes |-> sr.writes, tried |-> "None",
                   result |-> "UnicodeDecodeError"]
             ELSE IF out.reported
             THEN [self |-> check_and_record_ebb_error(sr.self, TRUE),
                   writes |-> sr.writes,
                   tried |-> "Error reported by EBB", result |-> "None"]
             ELSE [self |-> sr.self, writes |-> sr.writes,
                   tried |-> "None", result |-> "text"]

\* ebb3_serial.py:367-391  query_statusbyte; hex tells whether the response
\* holds a hexadecimal number after "QG,"
query_statusbyte(self, out, hex) ==
    IF self.port = "None" \/ self.err # "None"
    THEN [self |-> self, writes |-> 0, tried |-> "None", result |-> "None"]
    ELSE LET sr == send_request(self, out)
         IN  IF sr.response = "None"
             THEN [self |-> sr.self, writes |-> sr.writes,
                   tried |-> sr.tried, result |-> "None"]
             ELSE IF sr.response = "SerialException"
             THEN [self |-> record_error(sr.self,
                               "USB communication error after status byte query"),
                   writes |-> sr.writes,
                   tried |-> "USB communication error after status byte query",
                   result |-> "None"]
             ELSE IF sr.response = "UnicodeDecodeError"
             THEN [self |-> sr.self, writes |-> sr.writes, tried |-> "None",
                   result |-> "UnicodeDecodeError"]
             ELSE IF out.reported
             THEN [self |-> check_and_record_ebb_error(sr.self, TRUE),
                   writes |-> sr.writes,
                   tried |-> "Error reported by EBB", result |-> "None"]
             ELSE [self |-> sr.self, writes |-> sr.writes, tried |-> "None",
                   result |-> IF hex THEN "int" ELSE "None"]

\* What a call of connect meets: whether a port is located (find_first
\* leaves port_name as it is when comports() raises TypeError), what the port
\* does when it is opened and asked for its version, the lines r1 and r2 it
\* answers with (of a first line without "EBB" nothing is used), what it does
\* when it is set to the future syntax, and what it does with the nickname
\* query.
Quiet == Outcome("response", 0, FALSE)
ConnectEnv(locate, link, r1, r2, setup, nick) ==
    [locate |-> locate, link |-> link, r1 |-> r1, r2 |-> r2, setup |-> setup,
     nick |-> nick]
Locates == {"found", "not_found", "TypeError"}

\* the first line, and the second one, read when the first is without "EBB"
AnswerPairs ==
    {<<r, r>> : r \in {x \in Replies : x.text = "EBB"}}
    \cup {<<NoReply, r>> : r \in Replies}

\* connect goes on to set up the port after these lines, if the version it
\* then holds allows
SetsUpAfter(pair) ==
    /\ pair[2].text = "EBB"
    /\ \/ pair[2].version = NoVersion
       \/ VersionAtLeast(pair[2].version, MIN_VERSION_STRING)

\* what is never looked at is left at one value
ConnectEnvs ==
    {ConnectEnv(l, k, NoReply, NoReply, "ok", Quiet) :
        l \in Locates, k \in {"open_fails", "io_fails", "decode_fails"}}
    \cup {ConnectEnv(l, "answers", p[1], p[2], "ok", Quiet) :
        l \in Locates, p \in {x \in AnswerPairs : ~SetsUpAfter(x)}}
    \cup {ConnectEnv(l, "answers", p[1], p[2], "io_fails", Quiet) :
        l \in Locates, p \in {x \in AnswerPairs : SetsUpAfter(x)}}
    \cup {ConnectEnv(l, "answers", p[1], p[2], "ok", n) :
        l \in Locates, p \in {x \in AnswerPairs : SetsUpAfter(x)}, n \in Outcomes}

\* ebb3_serial.py:125-136  _get_port_name, for given_name None
get_port_name(self, locate) ==
    LET named == [self EXCEPT !.port_name =
                     IF locate = "found" THEN "found"
                     ELSE IF locate = "not_found" THEN "None"
                     ELSE @]
    IN  IF named.port_name = "None"
        THEN record_error(named, "Unable to locate device on USB")
        ELSE named

\* ebb3_serial.py:273-286  min_version: the comparison of None with a version
\* raises TypeError
min_version(self, v) ==
    IF self.version_parsed = NoVersion THEN "TypeError"
    ELSE IF VersionAtLeast(self.version_parsed, v) THEN "True" ELSE "False"

\* ebb3_serial.py:155-162  query_nickname
query_nickname(self, out) ==
    IF self.port = "None" \/ self.err # "None"
    THEN [self |-> self, tried |-> "None", result |-> "None"]
    ELSE query(self, "QT", out)

\* ebb3_serial.py:242-270  connect, from the verified port on
connect_verified(self, env) ==
    LET ok == min_version(self, MIN_VERSION_STRING)
        nick == query_nickname(self, env.nick)
    IN  IF ok = "TypeError"
        THEN [self |-> self, tried |-> "None", result |-> "TypeError"]
        ELSE IF ok = "False"
        THEN [self |-> record_error(self, "Firmware version not supported"),
              tried |-> "Firmware version not supported", result |-> "False"]
        ELSE IF env.setup = "io_fails"
        THEN [self |-> self, tried |-> "None", result |-> "SerialException"]
        ELSE IF nick.result \in {"UnicodeDecodeError", "UnboundLocalError", "IndexError"}
        THEN nick
        ELSE [self |-> nick.self, tried |-> nick.tried, result |-> "True"]

\* ebb3_serial.py:196-270  connect
connect(self, env) ==
    IF self.port # "None"
    THEN [self |-> self, tried |-> "None", result |-> "True"]
    ELSE LET named == get_port_name(self, env.locate)
             str_version == IF env.r1.text = "EBB" THEN env.r1 ELSE env.r2
             opened == [named EXCEPT !.port = "open"]
             answered == [opened EXCEPT !.port_reply = str_version]
         IN  IF named.port_name = "None"
             THEN [self |-> named, tried |-> "Unable to locate device on USB",
                   result |-> "False"]
             ELSE IF env.link \in {"open_fails", "io_fails"}
             THEN [self |-> disconnect(record_error(
                                disconnect(record_error(named,
                                    "Error testing USB connection")),
                                "Failed to connect via USB")),
                   tried |-> "Failed to connect via USB", result |-> "False"]
             ELSE IF env.link = "decode_fails"
             THEN [self |-> opened, tried |-> "None",
                   result |-> "UnicodeDecodeError"]
             ELSE IF str_version.text # "EBB"
             THEN [self |-> disconnect(record_error(answered,
                                "Failed to connect via USB")),
                   tried |-> "Failed to connect via USB", result |-> "False"]
             ELSE connect_verified(parse_version(answered, str_version), env)

\* ------------------------------------------------------ precision setting
\* ebb_calc.py:71, 122, 255  mpmath.mp.dps = 30
CalcDps == 30

\* mpmath.mp.dps after a call: the assignment is reached by every call that
\* does not leave through a return statement above it, and nothing sets the
\* value back
SetDps(before, reached) == IF reached THEN CalcDps ELSE before

\* ebb_calc.py:65-71, 116-122  the simulators return before the assignment
\* when time is 0
SimulatorSetsDps(t) == t # 0

\* ebb_calc.py:242-255  calculate_lm returns before the assignment on its
\* early exits
CalculateLmSetsDps(s, r, a) == EarlyExit(s, r, a) = "none"

\* ---------------------------------------------------------------- actions
NoArg == [time |-> 0, steps |-> 0, jerk |-> 0]
NoRet == [raised |-> FALSE, pos |-> 0, accum |-> 0, start |-> 0]
IsrIdle == [n |-> 0, pos |-> 0, acc |-> 0, ok |-> TRUE]

NoCall ==
    [name |-> "none", arg |-> "None", fault |-> "none", tried |-> "None",
     result |-> "None", writes |-> 0]

Init ==
    /\ ebb = NewEBB
    /\ call = NoCall
    /\ rate \in Rates
    /\ accel \in Accels
    /\ accum \in Accums
    /\ fn = "none"
    /\ arg = NoArg
    /\ ret = NoRet
    /\ isr = IsrIdle
    /\ dps \in {CallerDps, CalcDps}

\* a call move_dist_lt(rate, accel, t, accum); the integrator is set to the
\* start of the same move
CallMoveDistLt ==
    /\ fn = "none"
    /\ \E t \in Times :
        /\ fn' = "move_dist_lt"
        /\ arg' = [NoArg EXCEPT !.time = t]
        /\ ret' = move_dist_lt(rate, accel, t, accum)
    /\ isr' = [IsrIdle EXCEPT !.acc = IF accum.kind = "int" THEN accum.v ELSE 0]
    /\ UNCHANGED <<rate, accel, accum>>
    /\ dps' = SetDps(dps, SimulatorSetsDps(arg'.time))
    /\ UNCHANGED ebbVars

\* a call move_dist_t3(t, rate, accel, j, accum)
CallMoveDistT3 ==
    /\ fn = "none"
    /\ \E t \in Times, j \in Jerks :
        /\ fn' = "move_dist_t3"
        /\ arg' = [NoArg EXCEPT !.time = t, !.jerk = j]
        /\ ret' \in move_dist_t3(t, rate, accel, j, accum)
    /\ UNCHANGED <<rate, accel, accum, isr>>
    /\ dps' = SetDps(dps, SimulatorSetsDps(arg'.time))
    /\ UNCHANGED ebbVars

\* a call calculate_lm(s, rate, accel, accum)
CallCalculateLm ==
    /\ fn = "none"
    /\ \E s \in StepCounts :
        /\ fn' = "calculate_lm"
        /\ arg' = [NoArg EXCEPT !.steps = s]
        /\ ret' = calculate_lm(s, rate, accel, accum)
    /\ UNCHANGED <<rate, accel, accum, isr>>
    /\ dps' = SetDps(dps, CalculateLmSetsDps(arg'.steps, rate, accel))
    /\ UNCHANGED ebbVars

\* a call rate_t3(t, rate, accel, j)
CallRateT3 ==
    /\ fn = "none"
    /\ \E t \in Times, j \in Jerks :
        /\ fn' = "rate_t3"
        /\ arg' = [NoArg EXCEPT !.time = t, !.jerk = j]
        /\ ret' = [raised |-> FALSE, value |-> rate_t3(t, rate, accel, j)]
    /\ UNCHANGED <<rate, accel, accum, isr>>
    /\ dps' = dps
    /\ UNCHANGED ebbVars

\* a call max_rate_t3(t, rate, accel, j)
CallMaxRateT3 ==
    /\ fn = "none"
    /\ \E t \in Times, j \in Jerks :
        /\ fn' = "max_rate_t3"
        /\ arg' = [NoArg EXCEPT !.time = t, !.jerk = j]
        /\ ret' = [raised |-> FALSE,
                   value |-> max_rate_t3(t, rate, accel, j),
                   branch |-> MaxRateT3(t, rate, accel, j).branch,
                   mid |-> MaxRateT3(t, rate, accel, j).mid]
    /\ UNCHANGED <<rate, accel, accum, isr>>
    /\ dps' = dps
    /\ UNCHANGED ebbVars

\* a call moveTimeLM(rate, s, accel)
CallMoveTimeLM ==
    /\ fn = "none"
    /\ \E s \in StepCounts :
        /\ fn' = "moveTimeLM"
        /\ arg' = [NoArg EXCEPT !.steps = s]
        /\ ret' = [raised |-> FALSE, time |-> moveTimeLM(rate, s, accel)]
    /\ UNCHANGED <<rate, accel, accum, isr>>
    /\ dps' = SetDps(dps, CalculateLmSetsDps(arg'.steps, rate, accel))
    /\ UNCHANGED ebbVars

\* a call moveDistLM(rate, accel, t): t is the time moveTimeLM has just
\* returned, or any time when nothing was called before
CallMoveDistLM ==
    /\ fn \in {"none", "moveTimeLM"}
    /\ \E t \in (IF fn = "moveTimeLM" THEN {ret.time} ELSE Times) :
        /\ fn' = "moveDistLM"
        /\ arg' = [arg EXCEPT !.time = t]
        /\ ret' = [raised |-> FALSE, dist |-> moveDistLM(rate, accel, t)]
    /\ UNCHANGED <<rate, accel, accum, isr>>
    /\ dps' = SetDps(dps, SimulatorSetsDps(arg'.time))
    /\ UNCHANGED ebbVars

\* the integrator advances one tick of the move given to move_dist_lt; its
\* accumulator starts in [0, 2^31) and its rates fit in 31 bits
IsrTick ==
    /\ fn = "move_dist_lt"
    /\ accum.kind = "int" /\ accum.v \in 0..AccumMax
    /\ isr.ok
    /\ isr.n < arg.time
    /\ isr' = IsrStep(isr, rate, accel)
    /\ UNCHANGED <<rate, accel, accum, fn, arg, ret, dps>>
    /\ UNCHANGED ebbVars

Next ==
    \/ CallMoveDistLt
    \/ CallMoveDistT3
    \/ CallCalculateLm
    \/ CallRateT3
    \/ CallMaxRateT3
    \/ CallMoveTimeLM
    \/ CallMoveDistLM
    \/ IsrTick

Spec == Init /\ [][Next]_vars

\* ------------------------------------------------- actions on an EBB3 object
InitEBB ==
    /\ ebb = NewEBB
    /\ call = NoCall
    /\ rate = 0
    /\ accel = 0
    /\ accum = ClearAccum
    /\ fn = "none"
    /\ arg = NoArg
    /\ ret = NoRet
    /\ isr = IsrIdle
    /\ dps = CallerDps

\* no timed_pause is inside its loop: the object is used by one thread, and
\* no other method starts before the loop has ended
Idle == ~(call.name = "timed_pause" /\ call.pc = "while")

\* the record of a call: its name and argument, what the port did, the error
\* it tried to record, and what it returned or raised
Call(name, a, fault, r) ==
    [name |-> name, arg |-> a, fault |-> fault, tried |-> r.tried,
     result |-> r.result]

\* the record of a call that counts its calls of port.write
CallOnPort(name, a, fault, r) ==
    [name |-> name, arg |-> a, fault |-> fault, tried |-> r.tried,
     result |-> r.result, writes |-> r.writes]

\* ebb3_serial.py:297, 334, 373  a request goes to the port
Sent(self, request) ==
    self.port # "None" /\ self.err = "None" /\ request \notin {"None", ""}

\* connect(); a connected object does not touch the port.  In every action
\* retry_count is followed up to MaxRetryCount.
Connect ==
    /\ Idle
    /\ \E env \in (IF ebb.port = "None" THEN ConnectEnvs
                   ELSE {ConnectEnv("found", "open_fails", NoReply, NoReply, "ok", Quiet)}) :
           LET r == connect(ebb, env)
           IN  /\ r.self.retry_count <= MaxRetryCount
               /\ ebb' = r.self
               /\ call' = Call("connect", "None",
                               IF ebb.port = "None" THEN env.link ELSE "none", r)
               /\ UNCHANGED calcVars

\* disconnect()
Disconnect ==
    /\ Idle
    /\ ebb' = disconnect(ebb)
    /\ call' = [NoCall EXCEPT !.name = "disconnect"]
    /\ UNCHANGED calcVars

\* command(cmd)
Command ==
    /\ Idle
    /\ \E cmd \in Requests :
           \E out \in (IF Sent(ebb, cmd) THEN Outcomes ELSE {Quiet}) :
               LET r == command(ebb, cmd, out)
               IN  /\ r.self.retry_count <= MaxRetryCount
                   /\ ebb' = r.self
                   /\ call' = CallOnPort("command", cmd,
                                   IF Sent(ebb, cmd) THEN out.kind ELSE "none", r)
                   /\ UNCHANGED calcVars

\* query(qry)
Query ==
    /\ Idle
    /\ \E qry \in Requests :
           \E out \in (IF Sent(ebb, qry) THEN Outcomes ELSE {Quiet}) :
               LET r == query(ebb, qry, out)
               IN  /\ r.self.retry_count <= MaxRetryCount
                   /\ ebb' = r.self
                   /\ call' = CallOnPort("query", qry,
                                   IF Sent(ebb, qry) THEN out.kind ELSE "none", r)
                   /\ UNCHANGED calcVars

\* query_statusbyte()
QueryStatusbyte ==
    /\ Idle
    /\ \E out \in (IF Sent(ebb, "QG") THEN Outcomes ELSE {Quiet}), hex \in BOOLEAN :
           LET r == query_statusbyte(ebb, out, hex)
           IN  /\ r.self.retry_count <= MaxRetryCount
               /\ ebb' = r.self
               /\ call' = CallOnPort("query_statusbyte", "None",
                               IF Sent(ebb, "QG") THEN out.kind ELSE "none", r)
               /\ UNCHANGED calcVars

\* record_error(message), called by the code that uses the object
RecordError ==
    /\ Idle
    /\ \E message \in {"caller message"} :
           /\ ebb' = record_error(ebb, message)
           /\ call' = [NoCall EXCEPT !.name = "record_error", !.arg = message,
                                     !.tried = message]
           /\ UNCHANGED calcVars

\* _send_request(type, request, request_name, num_tries) on an open port
\* (command, query and query_statusbyte call it so, with num_tries 3)
SendRequest ==
    /\ ebb.port = "open"
    /\ \E num_tries \in 1..MaxTries :
           \E tries \in TriesOf(num_tries) :
               LET r == send_request_tries(ebb, tries, num_tries)
               IN  /\ r.self.retry_count <= MaxRetryCount
                   /\ ebb' = r.self
                   /\ call' = [name |-> "_send_request", arg |-> "SM",
                               fault |-> tries, tried |-> r.tried,
                               result |-> r.response, writes |-> r.writes,
                               resets |-> r.resets, polls |-> r.polls,
                               num_tries |-> num_tries, before |-> ebb]
                   /\ UNCHANGED calcVars

NextEBB ==
    \/ Connect
    \/ Disconnect
    \/ Command
    \/ Query
    \/ QueryStatusbyte
    \/ RecordError
    \/ SendRequest

SpecEBB == InitEBB /\ [][NextEBB]_vars

\* ---------------------------------------------------------------------------
\* ebb3_serial.py reboot, bootload, write_nickname and ebb3_motion.py
\* EBBMotionWrap.  A method's result holds the object after the call, the
\* error it tried to record, what it returned or raised, the number of
\* port.write calls it made, and a log with one entry for every command or
\* query it called: whether the object was closed or in error when the call
\* was made, the writes of that call and its result.
\* ---------------------------------------------------------------------------

\* what a method can raise
Raises ==
    {"UnboundLocalError", "IndexError", "UnicodeDecodeError", "ValueError"}

\* the condition every method tests first:
\* (self.port is None) or (self.err is not None)
Guarded(self) == self.port = "None" \/ self.err # "None"

\* a method that has called nothing yet
MethodStart(self) ==
    [self |-> self, tried |-> "None", result |-> "None", writes |-> 0,
     log |-> <<>>]

LogEntry(self, kind, r) ==
    [blocked |-> self.port = "None" \/ self.err # "None", kind |-> kind,
     writes |-> r.writes, result |-> r.result]

\* self.command(cmd) as the next statement of a method, its return value
\* dropped; an exception raised earlier or by the command ends the method
ThenCommand(m, cmd, out) ==
    IF m.result \in Raises THEN m
    ELSE LET r == command(m.self, cmd, out)
         IN  [self |-> r.self,
              tried |-> IF r.tried # "None" THEN r.tried ELSE m.tried,
              result |-> IF r.result \in Raises THEN r.result ELSE "None",
              writes |-> m.writes + r.writes,
              log |-> Append(m.log, LogEntry(m.self, "command", r))]

\* reboot with a guard that tests the port only
reboot_PortOnly(self, io) ==
    IF self.port = "None"
    THEN [MethodStart(self) EXCEPT !.result = "False"]
    ELSE IF io = "SerialException"
    THEN [MethodStart(self) EXCEPT !.result = "False", !.writes = 1]
    ELSE [MethodStart(disconnect(self)) EXCEPT !.result = "True", !.writes = 1]

\* ebb3_serial.py:86-100 reboot and 103-116 bootload: one write with no
\* response read, then disconnect; a SerialException on the write returns
\* False and leaves the port as it is.  io is how the write goes.
reboot(self, io) ==
    IF self.port = "None" \/ self.err # "None"
    THEN [MethodStart(self) EXCEPT !.result = "False"]
    ELSE IF io = "SerialException"
    THEN [MethodStart(self) EXCEPT !.result = "False", !.writes = 1]
    ELSE [MethodStart(disconnect(self)) EXCEPT !.result = "True", !.writes = 1]

bootload(self, io) == reboot(self, io)

\* ebb3_serial.py:165-183 write_nickname: command('ST,' + nickname), whose
\* return value is dropped; the except clause names SerialException, which
\* command never lets through.  The name kept in self.name is not part of
\* the object modelled here.
write_nickname(self, nickname, out) ==
    IF self.port = "None" \/ self.err # "None" \/ nickname = "None"
    THEN [MethodStart(self) EXCEPT !.result = "False"]
    ELSE LET m == ThenCommand(MethodStart(self), "ST", out)
         IN  IF m.result \in Raises THEN m ELSE [m EXCEPT !.result = "True"]

\* ebb3_motion.py:65-77 xy_move: the guard and one command.  abs_move,
\* motors_disable, clear_steps, clear_accumulators, pen_lower, pen_raise,
\* dio_b_set, pen_pos_down, pen_pos_up, pen_rate_down, pen_rate_up and
\* servo_timeout have the same shape.
xy_move(self, out) ==
    IF Guarded(self) THEN MethodStart(self)
    ELSE ThenCommand(MethodStart(self), "SM", out)

\* ebb3_motion.py:253-263 dio_b_config: the guard and two commands; the second is
\* called whatever the first returned
dio_b_config(self, out1, out2) ==
    IF Guarded(self) THEN MethodStart(self)
    ELSE ThenCommand(ThenCommand(MethodStart(self), "PO", out1), "PD", out2)

\* ebb3_motion.py:157-187 motors_query_enabled: the guard and one query;
\* parsed tells whether the response holds two numbers of the table
motors_query_enabled(self, out, parsed) ==
    IF Guarded(self) THEN MethodStart(self)
    ELSE LET r == query(self, "QE", out)
             m == [self |-> r.self, tried |-> r.tried, result |-> r.result,
                   writes |-> r.writes,
                   log |-> <<LogEntry(self, "query", r)>>]
         IN  IF r.result = "text"
             THEN [m EXCEPT !.result = IF parsed THEN "pair" ELSE "ValueError"]
             ELSE m

\* ebb3_motion.py:58  the longest delay of one command, in milliseconds
TimeDelayMax == 750

\* ebb3_motion.py:51-62 timed_pause.  pause_time is an integer or the
\* float infinity; the loop is followed pass by pass.
PauseTime(kind, v) == [kind |-> kind, v |-> v]
PauseTimes ==
    {PauseTime("int", n) :
        n \in {0 - 1, 0, 1, TimeDelayMax, TimeDelayMax + 1, MaxPause}}
    \cup {PauseTime("inf", 0)}

\* pause_time > n
PauseOver(p, n) == p.kind = "inf" \/ p.v > n

\* pause_time - d: infinity less d is infinity
PauseLess(p, d) == IF p.kind = "inf" THEN p ELSE [p EXCEPT !.v = @ - d]

\* ebb3_motion.py:57-60
time_delay(p) ==
    IF PauseOver(p, TimeDelayMax) THEN TimeDelayMax ELSE Max(p.v, 1)

\* what the port does in the calls of the methods above
MotionOutcomes ==
    {Quiet, Outcome("response", 0, TRUE), Outcome("no_response", 2, FALSE),
     Outcome("SerialException", 0, FALSE)}

\* the outcomes of a command or query called with the object in state self
OutcomesFor(self) == IF Sent(self, "SM") THEN MotionOutcomes ELSE {Quiet}

\* the record of a call of a method
CallOfMethod(name, a, fault, m) ==
    [name |-> name, arg |-> a, fault |-> fault, tried |-> m.tried,
     result |-> m.result, writes |-> m.writes, log |-> m.log]

Reboot ==
    /\ Idle
    /\ \E io \in {"written", "SerialException"} :
           LET m == reboot(ebb, io)
           IN  /\ ebb' = m.self
               /\ call' = CallOfMethod("reboot", "None",
                               IF Guarded(ebb) THEN "none" ELSE io, m)
               /\ UNCHANGED calcVars

Bootload ==
    /\ Idle
    /\ \E io \in {"written", "SerialException"} :
           LET m == bootload(ebb, io)
           IN  /\ ebb' = m.self
               /\ call' = CallOfMethod("bootload", "None",
                               IF Guarded(ebb) THEN "none" ELSE io, m)
               /\ UNCHANGED calcVars

WriteNickname ==
    /\ Idle
    /\ \E nickname \in {"None", "name"} :
           \E out \in OutcomesFor(ebb) :
               LET m == write_nickname(ebb, nickname, out)
               IN  /\ m.self.retry_count <= MaxRetryCount
                   /\ ebb' = m.self
                   /\ call' = CallOfMethod("write_nickname", nickname,
                                   IF m.log = <<>> THEN "none" ELSE out.kind, m)
                   /\ UNCHANGED calcVars

XyMove ==
    /\ Idle
    /\ \E out \in OutcomesFor(ebb) :
           LET m == xy_move(ebb, out)
           IN  /\ m.self.retry_count <= MaxRetryCount
               /\ ebb' = m.self
               /\ call' = CallOfMethod("xy_move", "None",
                               IF m.log = <<>> THEN "none" ELSE out.kind, m)
               /\ UNCHANGED calcVars

\* the second outcome is used only when the second command is sent
DioBConfig ==
    /\ Idle
    /\ \E out1 \in OutcomesFor(ebb), out2 \in MotionOutcomes :
           LET m == dio_b_config(ebb, out1, out2)
           IN  /\ m.self.retry_count <= MaxRetryCount
               /\ Len(m.log) = 2 /\ m.log[2].blocked => out2 = Quiet
               /\ Len(m.log) < 2 => out2 = Quiet
               /\ ebb' = m.self
               /\ call' = CallOfMethod("dio_b_config", "None",
                               IF m.log = <<>> THEN "none" ELSE out1.kind, m)
               /\ UNCHANGED calcVars

MotorsQueryEnabled ==
    /\ Idle
    /\ \E out \in OutcomesFor(ebb), parsed \in BOOLEAN :
           LET m == motors_query_enabled(ebb, out, parsed)
           IN  /\ m.self.retry_count <= MaxRetryCount
               /\ m.result \notin {"pair", "ValueError"} => parsed
               /\ ebb' = m.self
               /\ call' = CallOfMethod("motors_query_enabled", "None",
                               IF m.log = <<>> THEN "none" ELSE out.kind, m)
               /\ UNCHANGED calcVars

\* timed_pause(pause_time) is called: the guard
TimedPause ==
    /\ Idle
    /\ \E pause_time \in PauseTimes :
           /\ call' = [name |-> "timed_pause", arg |-> pause_time,
                       fault |-> "none", tried |-> "None", result |-> "None",
                       writes |-> 0, log |-> <<>>, delays |-> <<>>,
                       pause_time |-> pause_time,
                       pc |-> IF Guarded(ebb) THEN "returned" ELSE "while"]
           /\ UNCHANGED <<ebb, calcVars>>

\* the test of the while loop and, when it holds, one pass of the loop;
\* the loop is followed for MaxCommands passes
TimedPausePass ==
    /\ call.name = "timed_pause"
    /\ call.pc = "while"
    /\ IF ~PauseOver(call.pause_time, 0)
       THEN /\ call' = [call EXCEPT !.pc = "returned", !.writes = 0,
                                    !.fault = "none"]
            /\ UNCHANGED <<ebb, calcVars>>
       ELSE /\ Len(call.delays) < MaxCommands
            /\ \E out \in OutcomesFor(ebb) :
                   LET d == time_delay(call.pause_time)
                       r == command(ebb, "SM", out)
                   IN  /\ r.self.retry_count <= MaxRetryCount
                       /\ ebb' = r.self
                       /\ call' = [call EXCEPT
                              !.fault = IF Guarded(ebb) THEN "none" ELSE out.kind,
                              !.tried = IF r.tried # "None" THEN r.tried ELSE @,
                              !.result = IF r.result \in Raises THEN r.result
                                         ELSE "None",
                              !.writes = r.writes,
                              !.log = Append(@, LogEntry(ebb, "command", r)),
                              !.delays = Append(@, d),
                              !.pause_time = PauseLess(@, d),
                              !.pc = IF r.result \in Raises THEN "raised"
                                     ELSE "while"]
                       /\ UNCHANGED calcVars

NextMotion ==
    \/ Connect
    \/ Disconnect
    \/ RecordError
    \/ Command
    \/ Query
    \/ QueryStatusbyte
    \/ Reboot
    \/ Bootload
    \/ WriteNickname
    \/ XyMove
    \/ DioBConfig
    \/ MotorsQueryEnabled
    \/ TimedPause
    \/ TimedPausePass

SpecMotion == InitEBB /\ [][NextMotion]_vars


\* ================================================================== claims
\* The arguments of the calculate_lm call of this state are a move it accepts:
\* steps # 0, rate and accel not both zero, not steps < 0 with rate < 0.
NonDegenerateCall ==
    /\ fn = "calculate_lm"
    /\ arg.steps # 0
    /\ ~(rate = 0 /\ accel = 0)
    /\ ~(arg.steps < 0 /\ rate < 0)

\* accum is "clear" or an integer in [0, 2^31)
AccumInRange ==
    \/ accum.kind = "clear"
    \/ accum.kind = "int" /\ accum.v \in 0..AccumMax

\* Every rate the move adds to the accumulator up to the returned time (and
\* at the first tick) fits in 31 bits, as the firmware requires.
RatesFit ==
    \A n \in 1..(IF ret.time > 1 THEN ret.time ELSE 1) :
        Abs(RateAtTick(ret.rate, ret.accel, n)) < AccumRange

\* An accepted move within the firmware's range of rates.
AcceptedMove == NonDegenerateCall /\ AccumInRange /\ RatesFit

\* move_dist_lt over the move as calculate_lm computed it, for t ticks
Simulated(t) == move_dist_lt(ret.rate, ret.accel, t, accum)

\* C1: round trip.  For an accepted move, move_dist_lt run for the time
\* calculate_lm returned, with the rate and accel it used, returns the
\* position and accumulator calculate_lm returned.
C1_RoundTrip ==
    AcceptedMove =>
        /\ Simulated(ret.time).pos = ret.pos
        /\ Simulated(ret.time).accum = ret.accum

\* C2: move_dist_lt agrees with the integrator run tick by tick.  For
\* time >= 1 and a start accumulator in [0, 2^31), once the integrator has run
\* the ticks 1..time, all with rates that fit in 31 bits, its position and
\* accumulator are the ones move_dist_lt returned.
C2_MatchesIntegrator ==
    (/\ fn = "move_dist_lt"
     /\ arg.time >= 1
     /\ accum.kind = "int" /\ accum.v \in 0..AccumMax
     /\ isr.n = arg.time
     /\ isr.ok)
    => (ret.pos = isr.pos /\ ret.accum = isr.acc)

\* a move that steps back and forth enough to wrap in both directions
C2_Witness ==
    /\ fn = "move_dist_lt"
    /\ arg.time = MaxTime
    /\ accum.kind = "int" /\ accum.v \in 1..AccumMax
    /\ isr.n = arg.time
    /\ isr.ok
    /\ accel > 0 /\ rate < 0
    /\ isr.pos < 0
    /\ ret.pos = isr.pos /\ ret.accum = isr.acc

RECURSIVE SumRatesLT(_, _, _)
\* the rates of ticks 1..t of an LM/LT move, added up
SumRatesLT(r, a, t) ==
    IF t = 0 THEN 0 ELSE SumRatesLT(r, a, t - 1) + RateAtTick(r, a, t)

\* the rate the integrator adds at tick n >= 1 of a T3 move: rate -
\* trunc(accel/2) + trunc(jerk/6) + accel n + jerk n (n - 1) / 2
RateAtTickT3(r, a, j, n) ==
    r - TruncDiv(a, 2) + TruncDiv(j, 6) + a * n + (j * n * (n - 1)) \div 2

RECURSIVE SumRatesT3(_, _, _, _)
\* the rates of ticks 1..t of a T3 move, added up
SumRatesT3(r, a, j, t) ==
    IF t = 0 THEN 0 ELSE SumRatesT3(r, a, j, t - 1) + RateAtTickT3(r, a, j, t)

\* the accumulator after the move of this state's simulator call if it never
\* wrapped: the start value plus every tick's rate
Unwrapped ==
    ret.start + (IF fn = "move_dist_lt"
                 THEN SumRatesLT(rate, accel, arg.time)
                 ELSE SumRatesT3(rate, accel, arg.jerk, arg.time))

\* C3: accumulator wrap invariant of the simulators.  For time >= 1 and accum
\* "clear" or any integer, move_dist_lt and move_dist_t3 return a final
\* accumulator in [0, 2^31), and position * 2^31 + final accumulator is the
\* unwrapped accumulator value.
C3_WrapInvariant ==
    (/\ fn \in {"move_dist_lt", "move_dist_t3"}
     /\ arg.time >= 1
     /\ accum.kind # "invalid")
    => /\ ~ret.raised
       /\ 0 <= ret.accum /\ ret.accum < AccumRange
       /\ ret.pos * AccumRange + ret.accum = Unwrapped

\* a T3 move with jerk that ends below zero from a start value outside
\* [0, 2^31)
C3_Witness ==
    /\ fn = "move_dist_t3"
    /\ arg.time >= 2
    /\ arg.jerk < 0
    /\ accum.kind = "int" /\ accum.v < 0
    /\ ret.pos < 0 - 1
    /\ ret.accum > 0
    /\ ret.pos * AccumRange + ret.accum = Unwrapped

\* C4: the final accumulator calculate_lm returns for an accepted move is in
\* [0, 2^31).
C4_FinalAccumInRange ==
    AcceptedMove => (0 <= ret.accum /\ ret.accum < AccumRange)

\* the tick after which the target is looked for: the reversal tick, 0
\* without a relevant reversal
AfterTick == IF ret.t_rev > 0 THEN ret.t_rev ELSE 0

\* C5: calculate_lm returns the first tick at which the target is reached.
\* For an accepted move, move_dist_lt reports the returned position at the
\* returned time and at no tick between the reversal tick and it; when both
\* roots are left after filtering, the time is the smaller.
C5_FirstTickAtTarget ==
    AcceptedMove =>
        /\ Simulated(ret.time).pos = ret.pos
        /\ \A t \in (AfterTick + 1)..(ret.time - 1) : Simulated(t).pos # ret.pos
        /\ (ret.neg_root > 0 /\ ret.pos_root > 0) =>
               (ret.time <= ret.neg_root /\ ret.time <= ret.pos_root)

\* C6: the no-root fallback of calculate_lm is never reached.  For an accepted
\* move the returned time is at least 1.
C6_TimeAtLeastOne ==
    AcceptedMove => ret.time >= 1

\* the accumulator of the mirrored move: 2^31 - 1 - accum, "clear" for "clear"
Mirrored(c) == IF c.kind = "int" THEN IntAccum(AccumMax - c.v) ELSE c

\* C7, as stated: calculate_lm(steps, rate, accel, accum) and
\* calculate_lm(-steps, -rate, -accel, mirrored accum) return negated
\* positions and the same time.
C7_SignSymmetry_AsStated ==
    AcceptedMove =>
        LET other == calculate_lm(0 - arg.steps, 0 - rate, 0 - accel, Mirrored(accum))
        IN  other.pos = 0 - ret.pos /\ other.time = ret.time

\* C7, amended: for steps > 0, calculate_lm(steps, rate, accel, accum) and
\* calculate_lm(steps, -rate, -accel, mirrored accum) return negated positions
\* and the same time (and mirrored final accumulators).
C7_SignSymmetry ==
    (fn = "calculate_lm" /\ arg.steps > 0 /\ accum.kind # "invalid") =>
        LET other == calculate_lm(arg.steps, 0 - rate, 0 - accel, Mirrored(accum))
        IN  /\ other.pos = 0 - ret.pos
            /\ other.time = ret.time
            /\ ret.exit = "none" => other.accum = AccumMax - ret.accum

\* a move that reverses after steps in both directions and ends off zero
C7_Witness ==
    /\ fn = "calculate_lm"
    /\ arg.steps > 0
    /\ AccumInRange
    /\ ret.exit = "none"
    /\ ret.branch = "general"
    /\ ret.pos > 0
    /\ ret.time > ret.t_rev
    /\ ret.accum \in 0..AccumMax
    /\ Simulated(ret.time).pos = ret.pos
    /\ calculate_lm(arg.steps, 0 - rate, 0 - accel, Mirrored(accum)).pos = 0 - ret.pos

\* what calculate_lm returns: (time, position, accumulator), or an exception
Returned(x) == <<x.raised, x.time, x.pos, x.accum>>

\* C8: legacy mode.  For steps > 0 and rate >= 0, any accel and accum,
\* calculate_lm(-steps, rate, accel, accum) returns what
\* calculate_lm(steps, -rate, -accel, accum) returns.
C8_LegacyMode ==
    (fn = "calculate_lm" /\ arg.steps < 0 /\ rate >= 0) =>
        Returned(ret) = Returned(calculate_lm(0 - arg.steps, 0 - rate, 0 - accel, accum))

\* a legacy call of a move with acceleration that takes its steps
C8_Witness ==
    /\ fn = "calculate_lm"
    /\ arg.steps < 0 - 1
    /\ rate > 0
    /\ accel > 0
    /\ ret.exit = "none"
    /\ ret.time > 1
    /\ ret.pos = arg.steps

\* the inputs calculate_lm does not accept
DegenerateInput ==
    \/ arg.steps = 0
    \/ rate = 0 /\ accel = 0
    \/ arg.steps < 0 /\ rate < 0

\* C9: calculate_lm returns (0, 0, 0) without raising, whatever accum is, when
\* steps = 0, or rate = accel = 0, or steps < 0 and rate < 0; and it leaves
\* through an early exit for no other input.
C9_DegenerateExits ==
    fn = "calculate_lm" =>
        /\ DegenerateInput => Returned(ret) = <<FALSE, 0, 0, 0>>
        /\ DegenerateInput <=> ret.exit # "none"

\* a rejected legacy call with an accum that int() would not convert
C9_Witness ==
    /\ fn = "calculate_lm"
    /\ arg.steps < 0 /\ rate < 0 /\ accel # 0
    /\ accum.kind = "invalid"
    /\ ret.exit = "legacy_negative_rate"
    /\ Returned(ret) = <<FALSE, 0, 0, 0>>

\* C10: zero-time identity.  move_dist_lt(rate, accel, 0, accum) and
\* move_dist_t3(0, rate, accel, jerk, accum) return (0, 0) whatever accum is;
\* the accumulator passed in is not handed back.
C10_ZeroTime ==
    (fn \in {"move_dist_lt", "move_dist_t3"} /\ arg.time = 0) =>
        (~ret.raised /\ ret.pos = 0 /\ ret.accum = 0)

\* a T3 call of no ticks with a non-zero accumulator, rate, accel and jerk
C10_Witness ==
    /\ fn = "move_dist_t3"
    /\ arg.time = 0
    /\ accum.kind = "int" /\ accum.v = AccumMax
    /\ rate # 0 /\ accel # 0 /\ arg.jerk # 0
    /\ ret.pos = 0 /\ ret.accum = 0

\* the start value the rule gives a cleared accumulator: 2^31 - 1 when
\* temp_rate = rate - trunc(accel/2) + accel is negative, or is zero with
\* accel < 0; 0 otherwise
ClearStartByRule(r, a) ==
    LET temp_rate == r - TruncDiv(a, 2) + a
    IN  IF temp_rate < 0 \/ (temp_rate = 0 /\ a < 0) THEN AccumMax ELSE 0

\* C11: resolution of "clear".  For time >= 1, move_dist_lt with accum "clear"
\* returns what it returns with accum A, A being 2^31 - 1 when temp_rate is
\* negative, or zero with accel < 0, and 0 otherwise; calculate_lm, for the
\* move it computes, starts from the A of the same rule and returns what it
\* returns with accum A.
C11_ClearResolution ==
    /\ (fn = "move_dist_lt" /\ arg.time >= 1 /\ accum.kind = "clear") =>
        LET A == ClearStartByRule(rate, accel)
            other == move_dist_lt(rate, accel, arg.time, IntAccum(A))
        IN  /\ ~ret.raised
            /\ ret.start = A
            /\ ret.pos = other.pos /\ ret.accum = other.accum
    /\ (fn = "calculate_lm" /\ accum.kind = "clear" /\ ret.exit = "none") =>
        LET A == ClearStartByRule(ret.rate, ret.accel)
        IN  /\ ret.start = A
            /\ Returned(ret) =
                   Returned(calculate_lm(arg.steps, rate, accel, IntAccum(A)))

\* a cleared move whose first rate is zero and that then runs backward over a
\* step
C11_Witness ==
    /\ fn = "move_dist_lt"
    /\ arg.time >= 2
    /\ accum.kind = "clear"
    /\ RateAtTick(rate, accel, 1) = 0 /\ accel < 0
    /\ ret.start = AccumMax
    /\ ret.pos < 0
    /\ ret.pos = move_dist_lt(rate, accel, arg.time, IntAccum(AccumMax)).pos

\* the rate of step 1 of a T3 move as the cascade computes it
Step1RateT3(r, a, j) == r - TruncDiv(a, 2) + TruncDiv(j, 6) + a

\* C12: resolution of "clear" in move_dist_t3.  For time >= 1 the cleared
\* accumulator starts at 2^31 - 1 exactly when the step-1 rate is negative, or
\* it is zero and accel + jerk is negative, or both are zero and jerk < 0; it
\* starts at 0 in every other case.  These are the signs of the first of the
\* rates of steps 1, 2, 3 that is not zero.
C12_ClearCascadeT3 ==
    (fn = "move_dist_t3" /\ arg.time >= 1 /\ accum.kind = "clear") =>
        LET r1 == Step1RateT3(rate, accel, arg.jerk)
            high == \/ r1 < 0
                    \/ r1 = 0 /\ accel + arg.jerk < 0
                    \/ r1 = 0 /\ accel + arg.jerk = 0 /\ arg.jerk < 0
            v1 == RateAtTickT3(rate, accel, arg.jerk, 1)
            v2 == RateAtTickT3(rate, accel, arg.jerk, 2)
            v3 == RateAtTickT3(rate, accel, arg.jerk, 3)
        IN  /\ ~ret.raised
            /\ ret.start = (IF high THEN AccumMax ELSE 0)
            /\ high <=> \/ v1 < 0
                        \/ v1 = 0 /\ v2 < 0
                        \/ v1 = 0 /\ v2 = 0 /\ v3 < 0

\* a cleared T3 move at rest for two steps that then runs backward over a step
C12_Witness ==
    /\ fn = "move_dist_t3"
    /\ arg.time >= 3
    /\ accum.kind = "clear"
    /\ Step1RateT3(rate, accel, arg.jerk) = 0
    /\ accel + arg.jerk = 0
    /\ arg.jerk < 0
    /\ ret.start = AccumMax
    /\ ret.pos < 0

\* C13: rate_t3 returns rate + accel + jerk for time = 0 and, for every
\* time >= 1, the exact integer rate - trunc(accel/2) + trunc(jerk/6) +
\* accel time + jerk time (time - 1) / 2.
C13_RateT3Exact ==
    fn = "rate_t3" =>
        ret.value = IF arg.time = 0 THEN rate + accel + arg.jerk
                    ELSE RateAtTickT3(rate, accel, arg.jerk, arg.time)

\* C13, for the calls whose float values are all exact: those in which no
\* term of the sum reaches 2^FloatBits halves
C13_RateT3ExactWhenSmall ==
    (/\ fn = "rate_t3"
     /\ arg.time >= 1
     /\ 2 * Abs(rate - TruncDiv(accel, 2) + TruncDiv(arg.jerk, 6))
            + Abs(2 * accel - arg.jerk) * arg.time
            + Abs(arg.jerk) * arg.time * arg.time < FloatRange)
    => ret.value = RateAtTickT3(rate, accel, arg.jerk, arg.time)

\* C14: max_rate_t3 is an upper bound of the rate magnitude over the move: for
\* every tick t with 1 <= t <= time, |rate_t3(t, rate, accel, jerk)| is at
\* most max_rate_t3(time, rate, accel, jerk).
C14_MaxRateIsUpperBound ==
    fn = "max_rate_t3" =>
        \A t \in 1..arg.time : Abs(rate_t3(t, rate, accel, arg.jerk)) <= ret.value

\* the critical point (jerk/2 - accel) / jerk of the rate polynomial, in
\* exact arithmetic: is it strictly inside (1.5, time - 1.5)?  For jerk # 0.
CriticalPointInside(t, a, j) ==
    IF j > 0 THEN j < 0 - a /\ 0 - a < (t - 2) * j
    ELSE j > 0 - a /\ 0 - a > (t - 2) * j

\* the ticks either side of the critical point
CriticalPointCeil(a, j) == CeilQ(j - 2 * a, 2 * j)
CriticalPointFloor(a, j) == FloorQ(j - 2 * a, 2 * j)

\* what max_rate_t3 returns when the rate looked at between the ends is the
\* one of tick mid
MaxRateWithMid(mid) ==
    LET v_start == Abs(rate_t3(1, rate, accel, arg.jerk))
        v_end == Abs(rate_t3(arg.time, rate, accel, arg.jerk))
        inside == CriticalPointInside(arg.time, accel, arg.jerk)
    IN  /\ ret.value >= 0
        /\ arg.time <= 1 => ret.value = v_start
        /\ (arg.time > 1 /\ (arg.jerk = 0 \/ ~inside)) =>
               ret.value = Max(v_start, v_end)
        /\ (arg.time > 1 /\ arg.jerk # 0 /\ inside) =>
               ret.value = Max(Max(v_start, v_end),
                               Abs(rate_t3(mid, rate, accel, arg.jerk)))

\* C15, as stated: max_rate_t3 returns the largest of |rate_t3(1)|,
\* |rate_t3(time)| and |rate_t3(t_mid)|, the last only when t_mid is strictly
\* inside (1.5, time - 1.5); rate_t3 takes its time with int(), so that
\* rate_t3(t_mid) is the rate of the tick at or before t_mid.
C15_MaxRate_AsStated ==
    fn = "max_rate_t3" => MaxRateWithMid(CriticalPointFloor(accel, arg.jerk))

\* C15, amended: max_rate_t3 returns the largest of |rate_t3(1)|,
\* |rate_t3(time)| and |rate_t3(ceil(t_mid))|, the last only when jerk # 0 and
\* t_mid = (jerk/2 - accel) / jerk is strictly inside (1.5, time - 1.5); for
\* jerk = 0 the two ends only, for time <= 1 |rate_t3(1)|; never negative.
C15_MaxRate ==
    fn = "max_rate_t3" => MaxRateWithMid(CriticalPointCeil(accel, arg.jerk))

\* a move whose largest rate is the one of the tick after a critical point
\* that falls between two ticks
C15_Witness ==
    /\ fn = "max_rate_t3"
    /\ ret.branch = "with_mid"
    /\ CriticalPointInside(arg.time, accel, arg.jerk)
    /\ CriticalPointFloor(accel, arg.jerk) < CriticalPointCeil(accel, arg.jerk)
    /\ ret.mid = CriticalPointCeil(accel, arg.jerk)
    /\ ret.value = Abs(rate_t3(ret.mid, rate, accel, arg.jerk))
    /\ ret.value > Abs(rate_t3(1, rate, accel, arg.jerk))
    /\ ret.value > Abs(rate_t3(arg.time, rate, accel, arg.jerk))

\* the most ticks a move that never runs backward needs for MaxSteps steps
Horizon == 2 * MaxSteps * AccumRange

\* The move reaches s steps, counted from accumulator 0, without a tick of
\* negative rate before it does.
ReachedWithoutReversal(s) ==
    \E t \in 1..Horizon :
        /\ move_dist_lt(rate, accel, t, IntAccum(0)).pos = s
        /\ \A n \in 1..t : RateAtTick(rate, accel, n) >= 0

\* C16: the deprecated wrappers round-trip.  For rate > 0, steps > 0 and an
\* accel with which the move does not reverse before it reaches steps,
\* moveDistLM(rate, accel, moveTimeLM(rate, steps, accel)) is steps.
C16_WrapperRoundTrip ==
    (/\ fn = "moveDistLM"
     /\ arg.steps > 0
     /\ rate > 0
     /\ ReachedWithoutReversal(arg.steps))
    => ret.dist = arg.steps

\* a decelerating move that takes its steps before it would reverse
C16_Witness ==
    /\ fn = "moveDistLM"
    /\ arg.steps > 1
    /\ rate > 0 /\ accel < 0
    /\ ReachedWithoutReversal(arg.steps)
    /\ arg.time > arg.steps
    /\ moveDistLM(rate, accel, arg.time - 1) < arg.steps
    /\ ret.dist = arg.steps

\* the five functions of ebb_calc
CalcFunctions ==
    {"move_dist_lt", "move_dist_t3", "rate_t3", "max_rate_t3", "calculate_lm"}

\* C17: the five functions of ebb_calc change no state outside their return
\* value: the precision setting of the arithmetic library is after a call
\* what it was before it.
C17_NoSideEffect ==
    [][(fn = "none" /\ fn' \in CalcFunctions) => dps' = dps]_vars

\* C17 for the calls that do leave the setting alone: rate_t3, max_rate_t3,
\* a simulator with time 0 and calculate_lm on its early exits; every other
\* call leaves it at 30.
C17_WhereSettingIsKept ==
    [][(fn = "none" /\ fn' \in CalcFunctions) =>
        IF \/ fn' \in {"rate_t3", "max_rate_t3"}
           \/ fn' \in {"move_dist_lt", "move_dist_t3"} /\ arg'.time = 0
           \/ fn' = "calculate_lm" /\ ret'.exit # "none"
        THEN dps' = dps
        ELSE dps' = CalcDps]_vars

\* C18: command always returns a boolean and never raises; when the port
\* raises a communication error during the request, command returns False,
\* with the error recorded in err unless the command is one of RB, R, BL.
C18_CommandReturnsBoolean ==
    call.name = "command" =>
        /\ call.result \in {"True", "False"}
        /\ call.fault = "SerialException" =>
               /\ call.result = "False"
               /\ call.tried # "None" => ebb.err = call.tried

\* C18, what does hold: a command that is sent and meets a communication
\* error leaves the error in err, unless it is one of RB, R, BL; and a command
\* that returns True leaves err None.
C18_ErrorIsRecorded ==
    call.name = "command" =>
        /\ (call.fault = "SerialException" /\ call.result # "False") =>
               (call.arg \notin IgnoredNames <=>
                    ebb.err = "USB communication error after command")
        /\ call.result = "True" => ebb.err = "None"

\* C19: err holds the first error only.  Over any sequence of connect,
\* disconnect, command, query, query_statusbyte and record_error calls, once
\* err is not None its value never changes.
C19_FirstErrorOnly ==
    [][ebb.err # "None" => ebb'.err = ebb.err]_vars

\* a connect that fails to open the port of an object that already holds
\* another error, and leaves that error in place
C19_Witness ==
    /\ call.name = "connect"
    /\ call.result = "False"
    /\ call.fault = "open_fails"
    /\ call.tried = "Failed to connect via USB"
    /\ ebb.err = "Error reported by EBB"

\* C20: connect returns True only if the port answered a version request
\* with a string holding "EBB" and the firmware version parsed from it is at
\* least MIN_VERSION_STRING; so a connect that follows a connect rejected for
\* a firmware too old does not return True.
C20_ConnectOnlyVerified ==
    (call.name = "connect" /\ call.result = "True") =>
        /\ ebb.port = "open"
        /\ ebb.port_reply.text = "EBB"
        /\ ebb.port_reply.version # NoVersion
        /\ VersionAtLeast(ebb.port_reply.version, MIN_VERSION_STRING)

\* C20, the case named: after a connect rejected for its firmware version the
\* next call, if it is a connect, does not return True.
C20_NotAfterRejection ==
    [][(/\ call.name = "connect"
        /\ call.tried = "Firmware version not supported"
        /\ call'.name = "connect")
       => call'.result # "True"]_vars


\* the rate of the first tick, rate - trunc(accel/2) + accel, is negative, or
\* is zero with accel < 0
FirstTickNegative(r, a) ==
    LET first == r - TruncDiv(a, 2) + a
    IN  first < 0 \/ (first = 0 /\ a < 0)

\* the move calculate_lm computed has no relevant reversal: t_rev, the floor
\* of 0.5 - rate / accel when rate and accel have opposite signs and -1
\* otherwise, is at most 1, or the steps made up to it are steps or more
NoRelevantReversal ==
    \/ ReversalTick(ret.rate, ret.accel) <= 1
    \/ ret.s_rev >= ret.steps

\* C21: position without a relevant reversal.  When calculate_lm computes a
\* move and finds t_rev <= 1 or s_rev >= steps, the position it returns is
\* -steps if the first-tick rate is negative (or zero with accel < 0) and
\* +steps otherwise; steps, rate and accel are those after legacy negation.
C21_NoReversalPosition ==
    (fn = "calculate_lm" /\ ~ret.raised /\ ret.exit = "none" /\ NoRelevantReversal) =>
        /\ ret.steps = Abs(arg.steps)
        /\ ret.pos = IF FirstTickNegative(ret.rate, ret.accel)
                     THEN 0 - ret.steps ELSE ret.steps

\* a legacy call of a decelerating move that would reverse only after its
\* last step: the position is the negative step count
C21_Witness ==
    /\ fn = "calculate_lm"
    /\ ~ret.raised /\ ret.exit = "none"
    /\ arg.steps < 0
    /\ ReversalTick(ret.rate, ret.accel) > 1
    /\ ret.s_rev >= ret.steps
    /\ FirstTickNegative(ret.rate, ret.accel)
    /\ ret.pos = arg.steps


\* calculate_lm computed an accepted move in its general reversal case:
\* t_rev > 1 and 0 < s_rev < steps
GeneralReversal ==
    /\ AcceptedMove
    /\ ~ret.raised /\ ret.exit = "none"
    /\ ret.t_rev > 1
    /\ ret.s_rev > 0 /\ ret.s_rev < ret.steps

\* the steps the motor has made after t ticks of the move, both directions
\* counted: those up to the reversal tick, and those back from there
StepsTaken(t) ==
    IF t <= ret.t_rev
    THEN Abs(Simulated(t).pos)
    ELSE Abs(Simulated(ret.t_rev).pos)
             + Abs(Simulated(t).pos - Simulated(ret.t_rev).pos)

\* C22: the general reversal case.  With t_rev > 1 and 0 < s_rev < steps,
\* s_rev is the number of steps the move makes up to the reversal tick, the
\* returned position is steps - 2 s_rev when accel > 0 and 2 s_rev - steps
\* when accel < 0, and over the returned time the move makes steps steps in
\* all.
C22_GeneralReversal ==
    GeneralReversal =>
        /\ StepsTaken(ret.t_rev) = ret.s_rev
        /\ ret.pos = IF ret.accel > 0 THEN ret.steps - 2 * ret.s_rev
                                      ELSE 2 * ret.s_rev - ret.steps
        /\ StepsTaken(ret.time) = ret.steps

\* What holds of the general reversal case: s_rev is the number of steps made
\* up to the reversal tick and the returned position is the net of s_rev
\* steps one way and steps - s_rev the other.
C22_NetOfReversal ==
    GeneralReversal =>
        /\ StepsTaken(ret.t_rev) = ret.s_rev
        /\ ret.pos = IF ret.accel > 0 THEN ret.steps - 2 * ret.s_rev
                                      ELSE 2 * ret.s_rev - ret.steps


\* C23: bound and parity of the position.  For every move calculate_lm
\* accepts and computes, the returned position p has |p| <= |steps| and the
\* parity of steps, and p is +steps or -steps when there is no relevant
\* reversal.
C23_PositionBoundAndParity ==
    (NonDegenerateCall /\ ~ret.raised) =>
        /\ Abs(ret.pos) <= Abs(arg.steps)
        /\ (Abs(arg.steps) - Abs(ret.pos)) % 2 = 0
        /\ NoRelevantReversal => Abs(ret.pos) = Abs(arg.steps)

\* a move that reverses after some of its steps and ends short of its step
\* count, away from where it began
C23_Witness ==
    /\ NonDegenerateCall /\ ~ret.raised
    /\ ret.t_rev > 1
    /\ ret.s_rev > 0 /\ ret.s_rev < ret.steps
    /\ ret.pos # 0
    /\ Abs(ret.pos) < Abs(arg.steps)


\* calculate_lm computed an accepted move with a relevant reversal: t_rev > 1
\* and s_rev < steps (t_rev is kept in the result only then)
RelevantReversal ==
    /\ AcceptedMove
    /\ ~ret.raised /\ ret.exit = "none"
    /\ ret.t_rev > 1
    /\ ret.t_rev = ReversalTick(ret.rate, ret.accel)
    /\ ret.s_rev < ret.steps

\* C24: the time lies after the reversal.  When calculate_lm finds a relevant
\* reversal, no root at or before t_rev is kept and the returned time is
\* strictly greater than t_rev = floor(0.5 - rate / accel).
C24_TimeAfterReversal ==
    RelevantReversal =>
        /\ ret.neg_root > 0 => ret.neg_root > ret.t_rev
        /\ ret.pos_root > 0 => ret.pos_root > ret.t_rev
        /\ ret.time > ret.t_rev

\* What holds with a relevant reversal: a root that is kept lies after t_rev,
\* and so does the returned time unless no root is kept; it is 0 then.
C24_KeptRootsAfterReversal ==
    RelevantReversal =>
        /\ ret.neg_root > 0 => ret.neg_root > ret.t_rev
        /\ ret.pos_root > 0 => ret.pos_root > ret.t_rev
        /\ ret.time > ret.t_rev \/ (ret.time = 0 /\ ret.neg_root <= 0 /\ ret.pos_root <= 0)


\* a call of move_dist_t3 that computes a move: time >= 1 and accum "clear" or
\* an integer
ComputedT3 ==
    /\ fn = "move_dist_t3"
    /\ arg.time >= 1
    /\ accum.kind # "invalid"

\* accum + (rate - trunc(accel/2) + trunc(jerk/6)) T + accel T (T + 1) / 2
\* + jerk (T - 1) T (T + 1) / 6; both divisions are exact
IntegerAccumT3(r, a, j, t, c) ==
    c + (r - TruncDiv(a, 2) + TruncDiv(j, 6)) * t
      + (a * t * (t + 1)) \div 2
      + (j * (t - 1) * t * (t + 1)) \div 6

\* C25: the rounding of move_dist_t3 changes nothing.  For integer inputs and
\* T >= 1 the unrounded accumulator is the integer accum + (rate -
\* trunc(accel/2) + trunc(jerk/6)) T + accel T (T + 1) / 2 + jerk (T - 1) T
\* (T + 1) / 6, and the value move_dist_t3 goes on with after round() is that
\* integer: position * 2^31 + final accumulator equals it.
C25_RoundingKeepsValue ==
    ComputedT3 =>
        LET whole == IntegerAccumT3(rate, accel, arg.jerk, arg.time, ret.start)
        IN  /\ AccumPolyT3x6(rate, accel, arg.jerk, arg.time, ret.start) = 6 * whole
            /\ ret.pos * AccumRange + ret.accum = whole

\* What holds of the rounding: the unrounded accumulator is that integer, and
\* the rounded value is that integer when a float holds it, within the
\* spacing of the floats around it when not.
C25_UnroundedIsInteger ==
    ComputedT3 =>
        LET whole == IntegerAccumT3(rate, accel, arg.jerk, arg.time, ret.start)
            rounded == ret.pos * AccumRange + ret.accum
        IN  /\ AccumPolyT3x6(rate, accel, arg.jerk, arg.time, ret.start) = 6 * whole
            /\ Abs(whole) <= FloatRange => rounded = whole
            /\ Abs(rounded - whole) < IntUlp(whole)


\* what a simulator returns: (position, accumulator), or an exception
ReturnedPair(x) == <<x.raised, x.pos, x.accum>>

\* C26: with zero jerk the cubic simulator is the linear one.  For all integer
\* rate, accel and time and every accum, move_dist_t3(time, rate, accel, 0,
\* accum) returns what move_dist_lt(rate, accel, time, accum) returns.
C26_ZeroJerkIsLinear ==
    (fn = "move_dist_t3" /\ arg.jerk = 0) =>
        ReturnedPair(ret) = ReturnedPair(move_dist_lt(rate, accel, arg.time, accum))

\* What holds with zero jerk: the two start from the same accumulator and
\* compute the same unrounded value, so they return the same whenever a float
\* holds that value.
C26_ZeroJerkSameValue ==
    (fn = "move_dist_t3" /\ arg.jerk = 0) =>
        LET lt == move_dist_lt(rate, accel, arg.time, accum)
            whole == lt.pos * AccumRange + lt.accum
        IN  /\ ret.raised = lt.raised
            /\ ~ret.raised =>
                   /\ ret.start = lt.start
                   /\ Abs(whole) <= FloatRange =>
                          (ret.pos = lt.pos /\ ret.accum = lt.accum)


\* C27: mirror symmetry of move_dist_lt with a cleared accumulator.  For
\* time >= 1 and rate, accel not both zero, if move_dist_lt(rate, accel, time,
\* "clear") returns (p, c) then move_dist_lt(-rate, -accel, time, "clear")
\* returns (-p, 2^31 - 1 - c).
C27_MirrorSymmetryLT ==
    (/\ fn = "move_dist_lt"
     /\ arg.time >= 1
     /\ accum.kind = "clear"
     /\ ~(rate = 0 /\ accel = 0))
    => LET other == move_dist_lt(0 - rate, 0 - accel, arg.time, ClearAccum)
       IN  /\ ~ret.raised /\ ~other.raised
           /\ other.pos = 0 - ret.pos
           /\ other.accum = AccumMax - ret.accum

\* a cleared move that starts forward, reverses and ends behind its start,
\* while its mirror image ends ahead
C27_Witness ==
    /\ fn = "move_dist_lt"
    /\ arg.time >= 3
    /\ accum.kind = "clear"
    /\ rate > 0 /\ accel < 0
    /\ ret.start = 0
    /\ ret.pos < 0
    /\ ret.accum # 0
    /\ move_dist_lt(0 - rate, 0 - accel, arg.time, ClearAccum).start = AccumMax
    /\ move_dist_lt(0 - rate, 0 - accel, arg.time, ClearAccum).pos > 0


\* the tries of a call of _send_request that failed: the port was silent or
\* answered with something that does not start with the name of the request
FailedTries(tries) ==
    {i \in 1..Len(tries) : tries[i].kind \in {"silent", "unexpected"}}

\* C28: the tries of _send_request.  A call with num_tries tries writes the
\* request at most num_tries times and reads the port at most 25 times in a
\* try; every failed try but the last allowed adds 1 to retry_count and
\* resets the input buffer once; an error is recorded, and None returned,
\* exactly when num_tries tries have failed; an answer that starts with the
\* name of the request is returned, at whatever try, with no error recorded.
C28_SendRequestTries ==
    call.name = "_send_request" =>
        LET n == call.num_tries
            failed == Cardinality(FailedTries(call.fault))
            last == call.fault[Len(call.fault)]
            retried == IF failed = n THEN n - 1 ELSE failed
        IN  /\ call.writes <= n
            /\ call.writes = Len(call.fault)
            /\ call.polls <= readline_poll_max
            /\ ebb.retry_count = call.before.retry_count + retried
            /\ call.resets = retried
            /\ call.tried # "None" <=> failed = n
            /\ call.result = "None" <=> failed = n
            /\ failed = n =>
                   ebb.err = IF call.before.err = "None" THEN "EBB Serial Error"
                             ELSE call.before.err
            /\ failed < n => ebb.err = call.before.err
            /\ last.kind = "named" => call.result = "text"

\* a call with three tries: the port is silent for a try of 25 reads, answers
\* the second try with something else, and the third with the request's
\* name; the answer is returned and nothing recorded
C28_Witness ==
    /\ call.name = "_send_request"
    /\ call.num_tries = 3
    /\ call.fault = <<Try("silent", readline_poll_max), Try("unexpected", MaxChatter),
                      Try("named", 1)>>
    /\ call.writes = 3
    /\ call.polls = readline_poll_max
    /\ call.result = "text"
    /\ ebb.retry_count = call.before.retry_count + 2
    /\ ebb.err = "None"

\* ---------------------------------------------------------------------------
\* Claims about the methods of EBB3 and EBBMotionWrap that use the port
\* (specification SpecMotion)
\* ---------------------------------------------------------------------------

\* the methods that write to the port
PortMethods ==
    {"command", "query", "query_statusbyte", "reboot", "bootload",
     "write_nickname", "xy_move", "dio_b_config", "motors_query_enabled",
     "timed_pause"}

\* the methods that keep a log of the commands and queries they call
LoggingMethods ==
    {"write_nickname", "xy_move", "dio_b_config", "motors_query_enabled",
     "timed_pause"}

\* a call of command or query made with the object closed or in error wrote
\* nothing and returned False (command) or None (query)
BlockedCallWroteNothing(entry) ==
    entry.blocked =>
        /\ entry.writes = 0
        /\ entry.kind = "command" => entry.result = "False"
        /\ entry.kind = "query" => entry.result = "None"

\* C29: once err is not None, or while port is None, no call of command,
\* query, query_statusbyte, reboot, bootload, write_nickname or a motion
\* method writes to the port: a step of one of them from such a state makes
\* no write, command returns False and query returns None; and inside a
\* method, every command or query called after the error was recorded
\* writes nothing and returns False or None
C29_NoWriteWhenErrOrClosed ==
    [][/\ (ebb.err # "None" \/ ebb.port = "None") /\ call'.name \in PortMethods =>
              /\ call'.writes = 0
              /\ call'.name = "command" => call'.result = "False"
              /\ call'.name = "query" => call'.result = "None"
       /\ call'.name \in LoggingMethods =>
              \A i \in 1..Len(call'.log) : BlockedCallWroteNothing(call'.log[i])
      ]_vars

\* dio_b_config on an open port without error: the board reports an error
\* in its answer to the first command, which is recorded; the second
\* command is called and writes nothing
C29_Witness ==
    /\ call.name = "dio_b_config"
    /\ Len(call.log) = 2
    /\ ~call.log[1].blocked /\ call.log[1].writes = 1
    /\ call.log[2].blocked /\ call.log[2].writes = 0
    /\ call.log[2].result = "False"
    /\ call.writes = 1
    /\ ebb.err = "Error reported by EBB"
    /\ ebb.port = "open"

\* the sum of a sequence of delays
RECURSIVE SumOfDelays(_)
SumOfDelays(delays) ==
    IF delays = <<>> THEN 0 ELSE Head(delays) + SumOfDelays(Tail(delays))

\* pause time p is a smaller number than pause time q
PauseBelow(p, q) == p.kind = "int" /\ q.kind = "int" /\ p.v < q.v

\* a pass of the loop of timed_pause that leaves it in the loop
LoopPass ==
    /\ call.name = "timed_pause" /\ call.pc = "while"
    /\ call'.name = "timed_pause" /\ call'.pc = "while"

\* timed_pause ends, having started on an open port without error
LoopEnd ==
    /\ call.name = "timed_pause" /\ call.pc = "while"
    /\ call'.name = "timed_pause" /\ call'.pc # "while"

\* the commands of a timed_pause are 'SM,<d>,0,0' with 1 <= d <= 750
DelaysInRange(delays) ==
    \A i \in 1..Len(delays) : 1 <= delays[i] /\ delays[i] <= TimeDelayMax

\* C30: timed_pause(pause_time) terminates for every pause_time (every pass
\* of its loop leaves less of the pause than there was, a number that
\* cannot fall for ever); for an integer pause_time >= 1, started on an open
\* port without error, it ends having issued commands whose delays are each
\* between 1 and 750 and sum to pause_time; for pause_time <= 0 it issues
\* no command
C30_TimedPause ==
    [][/\ LoopPass => PauseBelow(call'.pause_time, call.pause_time)
       /\ LoopEnd /\ call.arg.kind = "int" /\ call.arg.v >= 1 =>
              /\ DelaysInRange(call'.delays)
              /\ SumOfDelays(call'.delays) = call.arg.v
       /\ call'.name = "timed_pause" /\ ~PauseOver(call'.arg, 0) =>
              call'.delays = <<>>
      ]_vars

\* the part of C30 that holds: for an integer pause_time every pass leaves
\* less of the pause; a timed_pause that returns, its pause_time an integer
\* >= 1 and the port open and without error at the call, has issued commands
\* with delays between 1 and 750 that sum to pause_time, whether or not
\* they were written; for pause_time <= 0 no command is issued
C30_FinitePauseThatReturns ==
    [][/\ LoopPass /\ call.arg.kind = "int" =>
              PauseBelow(call'.pause_time, call.pause_time)
       /\ LoopEnd /\ call'.pc = "returned"
             /\ call.arg.kind = "int" /\ call.arg.v >= 1 =>
              /\ DelaysInRange(call'.delays)
              /\ SumOfDelays(call'.delays) = call.arg.v
       /\ call'.name = "timed_pause" /\ ~PauseOver(call'.arg, 0) =>
              call'.delays = <<>>
      ]_vars

\* timed_pause(MaxPause) that returned after the commands SM,750,0,0,
\* SM,750,0,0 and one for the rest, each written and answered
C30_ThreeCommands ==
    /\ call.name = "timed_pause"
    /\ call.pc = "returned"
    /\ call.arg = PauseTime("int", MaxPause)
    /\ call.delays = <<TimeDelayMax, TimeDelayMax, MaxPause - 2 * TimeDelayMax>>
    /\ \A i \in 1..3 : call.log[i].writes = 1 /\ call.log[i].result = "True"
    /\ ebb.err = "None"

\* timed_pause(751) whose first command met a communication error: command
\* raised UnboundLocalError and the pause ended after SM,750,0,0
C30_RaisedInLoop ==
    /\ call.name = "timed_pause"
    /\ call.pc = "raised"
    /\ call.arg = PauseTime("int", TimeDelayMax + 1)
    /\ call.delays = <<TimeDelayMax>>
    /\ call.result = "UnboundLocalError"

\* timed_pause(float('inf')) after MaxCommands passes, as much of the pause
\* left as at the start
C30_EndlessPause ==
    /\ call.name = "timed_pause"
    /\ call.pc = "while"
    /\ call.arg.kind = "inf"
    /\ Len(call.delays) = MaxCommands
    /\ call.pause_time = call.arg

=============================================================================
